---- MODULE Spec2Model ----
(***************************************************************************)
(* Model of mcp-advisor (src/src/index.ts): the TTL cache, the schema,     *)
(* links-list and fragment fetch paths, the section filter and the        *)
(* ReadResource handler with its section and complete compositions.       *)
(*                                                                         *)
(* Strings are sequences of tokens.  A token is a run of characters that   *)
(* no string operation of the program ever cuts: "/" is always a token of  *)
(* its own, so that split('/'), includes('/basic/'), startsWith(...) and   *)
(* the regular expressions of the source become operations on sequences.   *)
(* Bodies of fetched markdown are tokenised character by character.        *)
(***************************************************************************)
EXTENDS Integers, Sequences, FiniteSets, TLC

\* ------------------------------------------------------------------ bounds
\* Number of times the clock is seen to advance in one behaviour.
MaxTicks == 1
\* Number of remote fetches that settle in one behaviour.
MaxFetches == 3
\* Length of the lists of links handed to filterUrlsBySection directly.
MaxLinks == 2
\* number of characters of a fragment body handed to fetchMarkdownContent
MaxBody == 8

\* ------------------------------------------------------- program constants
VERSION == <<"2025-03-26">>
SUPPORTED_VERSIONS == << <<"draft">>, <<"2024-11-05">>, <<"2025-03-26">> >>
TTL == 3600000

\* ---------------------------------------------------------- string helpers
Slash == <<"/">>

\* String.prototype.startsWith
StartsWith(s, p) == Len(p) <= Len(s) /\ SubSeq(s, 1, Len(p)) = p

\* String.prototype.endsWith
EndsWith(s, p) == Len(p) <= Len(s) /\ SubSeq(s, Len(s) - Len(p) + 1, Len(s)) = p

\* String.prototype.indexOf(p, from), 0-based like the source; -1 if absent.
IndexOf(s, p, from) ==
    LET hits == {i \in from..(Len(s) - Len(p)) : SubSeq(s, i + 1, i + Len(p)) = p}
    IN  IF hits = {} THEN -1 ELSE CHOOSE i \in hits : \A j \in hits : i <= j

\* String.prototype.includes
Includes(s, p) == IndexOf(s, p, 0) # -1

\* String.prototype.substring(from) with a 0-based start
Substring(s, from) == SubSeq(s, from + 1, Len(s))

IsSpace(c) == c \in {" ", "\n"}

RECURSIVE TrimStart(_)
TrimStart(s) == IF s # <<>> /\ IsSpace(Head(s)) THEN TrimStart(Tail(s)) ELSE s

RECURSIVE TrimEnd(_)
TrimEnd(s) ==
    IF s # <<>> /\ IsSpace(s[Len(s)]) THEN TrimEnd(SubSeq(s, 1, Len(s) - 1)) ELSE s

\* String.prototype.trim
Trim(s) == TrimEnd(TrimStart(s))

\* String.prototype.split('/'): the pieces between the "/" tokens (the rest
\* of the string is a value before it is split)
RECURSIVE SplitSlash(_)
SplitSlash(s) ==
    LET i == IndexOf(s, Slash, 0)
    IN  IF i = -1 THEN <<s>>
        ELSE <<SubSeq(s, 1, i)>>
                 \o (CHOOSE r \in {SplitSlash(rest) : rest \in {Substring(s, i + 1)}} : TRUE)

\* Array.prototype.pop() of a non-empty array: its last element
Pop(a) == a[Len(a)]

\* String.prototype.replace(p, r) with a string pattern: first occurrence only
ReplaceFirst(s, p, r) ==
    LET i == IndexOf(s, p, 0)
    IN  IF i = -1 THEN s ELSE SubSeq(s, 1, i) \o r \o Substring(s, i + Len(p))

\* Array.prototype.join(sep)
RECURSIVE JoinWith(_, _)
JoinWith(a, sep) ==
    IF a = <<>> THEN <<>>
    ELSE IF Len(a) = 1 THEN a[1]
    ELSE a[1] \o sep \o JoinWith(Tail(a), sep)

\* Array.prototype.includes
ArrIncludes(a, x) == \E i \in 1..Len(a) : a[i] = x

\* ------------------------------------------------------------------ values
\* JavaScript values held by the cache and by local variables.
Null == [t |-> "null"]
Str(s) == [t |-> "str", v |-> s]
Arr(a) == [t |-> "arr", v |-> a]
JsonObj(ver, rev) == [t |-> "obj", ver |-> ver, rev |-> rev]
JsonFalse == [t |-> "bool", v |-> FALSE]

\* JavaScript truthiness, as used by `if (cached)` and `if (expired)`
Truthy(x) ==
    CASE x.t = "null" -> FALSE
      [] x.t = "bool" -> x.v
      [] x.t = "str"  -> x.v # <<>>
      [] OTHER        -> TRUE

\* ------------------------------------------------------------------- Cache
CacheEntry(data, timestamp) == [data |-> data, timestamp |-> timestamp]

Cache_has(c, key) == key \in DOMAIN c

\* Cache.get with an entry still served at an age of exactly TTL
Cache_get_inclusive(c, key, t) ==
    IF Cache_has(c, key) /\ (t - c[key].timestamp) <= TTL THEN c[key].data ELSE Null

\* Cache.get(key) evaluated when Date.now() = t
Cache_get(c, key, t) ==
    IF Cache_has(c, key) /\ (t - c[key].timestamp) < TTL THEN c[key].data ELSE Null

\* Cache.set that keeps the timestamp of an entry it overwrites
Cache_set_keepsTimestamp(c, key, data, t) ==
    [k \in DOMAIN c \cup {key} |->
        IF k = key
        THEN CacheEntry(data, IF Cache_has(c, key) THEN c[key].timestamp ELSE t)
        ELSE c[k]]

\* a Cache.set that replaces the whole map by the new entry
Cache_set_single(c, key, data, t) == [k \in {key} |-> CacheEntry(data, t)]

\* a Cache.set that keeps the entry a key already has
Cache_set_firstWins(c, key, data, t) ==
    IF key \in DOMAIN c THEN c
    ELSE [k \in DOMAIN c \cup {key} |->
             IF k = key THEN CacheEntry(data, t) ELSE c[k]]

\* Cache.set(key, data) evaluated when Date.now() = t: the map afterwards
Cache_set(c, key, data, t) ==
    [k \in DOMAIN c \cup {key} |-> IF k = key THEN CacheEntry(data, t) ELSE c[k]]

\* Cache.getExpired that returns the entry instead of its data
Cache_getExpired_entry(c, key) == IF Cache_has(c, key) THEN c[key] ELSE Null

\* Cache.getExpired(key)
Cache_getExpired(c, key) == IF Cache_has(c, key) THEN c[key].data ELSE Null

\* ------------------------------------------------------------ URL matching
Site == <<"https:", "/", "/", "modelcontextprotocol.io">>

\* The tokens of the universe that match 20\d{2}-\d{2}-\d{2}
DateTokens == {"2024-11-05", "2025-03-26", "2023-01-01"}

\* url.match(/\/20\d{2}-\d{2}-\d{2}\/|\/draft\//)
MatchesVersionSegment(url) ==
    \E i \in 1..(Len(url) - 2) :
        /\ url[i] = "/"
        /\ url[i + 2] = "/"
        /\ (url[i + 1] \in DateTokens \/ url[i + 1] = "draft")

\* '^[^/]+\.md$', the regular-expression section of the repository
TopLevelMdPattern == <<"^", "[^/]+", "\\.md", "$">>

\* A pattern is a sequence of atoms: "^" (first), "$" (last), "[^/]+",
\* "\\.md" (the literal .md) and literal tokens.  MatchHere(pat, s): the atoms
\* `pat` match a prefix of s (all of s when pat ends in "$").
RECURSIVE MatchHere(_, _)
MatchHere(pat, s) ==
    IF pat = <<>> THEN TRUE
    ELSE IF pat = <<"$">> THEN s = <<>>
    ELSE IF Head(pat) = "[^/]+"
    THEN \E k \in 1..Len(s) :
             /\ \A i \in 1..k : s[i] # "/"
             /\ MatchHere(Tail(pat), SubSeq(s, k + 1, Len(s)))
    ELSE /\ s # <<>>
         /\ Head(s) = (IF Head(pat) = "\\.md" THEN ".md" ELSE Head(pat))
         /\ MatchHere(Tail(pat), Tail(s))

\* new RegExp(pattern).test(s)
RegExpTest(pattern, s) ==
    IF pattern # <<>> /\ Head(pattern) = "^"
    THEN MatchHere(Tail(pattern), s)
    ELSE \E k \in 0..Len(s) : MatchHere(pattern, Substring(s, k))

GithubSection == <<"github.com", "/", "modelcontextprotocol", "/">>
GithubPrefix == <<"https:", "/", "/", "github.com", "/", "modelcontextprotocol", "/">>
DocsSection == <<"/", "docs", "/">>

\* validLinks that keeps only the links of the requested version
validLinks_versionedOnly(links, version) ==
    LET Valid(url) ==
            /\ url # <<>>
            /\ url # <<"MCP">>
            /\ Includes(url, Slash \o version \o Slash)
    IN  SelectSeq(links, Valid)

\* validLinks without the test for 'MCP'
validLinks_keepsSentinel(links, version) ==
    LET Valid(url) ==
            /\ url # <<>>
            /\ (Includes(url, Slash \o version \o Slash) \/ ~MatchesVersionSegment(url))
    IN  SelectSeq(links, Valid)

\* the first filter of filterUrlsBySection: drops '', 'MCP' and other versions
validLinks(links, version) ==
    LET Valid(url) ==
            /\ url # <<>>
            /\ url # <<"MCP">>
            /\ (Includes(url, Slash \o version \o Slash) \/ ~MatchesVersionSegment(url))
    IN  SelectSeq(links, Valid)

\* filterUrlsBySection whose special branches filter `links`, not `validLinks`
filterUrlsBySection_scopesLiteralOnly(links, section, version) ==
    LET valid == validLinks(links, version)
        ByRegex(url) == RegExpTest(section, Pop(SplitSlash(url)))
        ByGithub(url) == StartsWith(url, GithubPrefix)
        ByDocs(url) ==
            LET parts == SplitSlash(url)
            IN  Len(parts) = 4 /\ EndsWith(parts[4], <<".md">>)
        BySection(url) == Includes(url, section)
    IN  IF StartsWith(section, <<"^">>) THEN SelectSeq(links, ByRegex)
        ELSE IF section = GithubSection THEN SelectSeq(links, ByGithub)
        ELSE IF section = DocsSection THEN SelectSeq(links, ByDocs)
        ELSE SelectSeq(valid, BySection)

\* filterUrlsBySection whose loops stop one link early
filterUrlsBySection_dropsLast(links, section, version) ==
    LET valid == validLinks(links, version)
        ByRegex(url) == RegExpTest(section, Pop(SplitSlash(url)))
        ByGithub(url) == StartsWith(url, GithubPrefix)
        ByDocs(url) ==
            LET parts == SplitSlash(url)
            IN  Len(parts) = 4 /\ EndsWith(parts[4], <<".md">>)
        BySection(url) == Includes(url, section)
        all == IF StartsWith(section, <<"^">>) THEN SelectSeq(valid, ByRegex)
               ELSE IF section = GithubSection THEN SelectSeq(valid, ByGithub)
               ELSE IF section = DocsSection THEN SelectSeq(valid, ByDocs)
               ELSE SelectSeq(valid, BySection)
    IN  SubSeq(all, 1, Len(all) - 1)

\* filterUrlsBySection that collects its result with unshift
filterUrlsBySection_reversed(links, section, version) ==
    LET valid == validLinks(links, version)
        ByRegex(url) == RegExpTest(section, Pop(SplitSlash(url)))
        ByGithub(url) == StartsWith(url, GithubPrefix)
        ByDocs(url) ==
            LET parts == SplitSlash(url)
            IN  Len(parts) = 4 /\ EndsWith(parts[4], <<".md">>)
        BySection(url) == Includes(url, section)
        all == IF StartsWith(section, <<"^">>) THEN SelectSeq(valid, ByRegex)
               ELSE IF section = GithubSection THEN SelectSeq(valid, ByGithub)
               ELSE IF section = DocsSection THEN SelectSeq(valid, ByDocs)
               ELSE SelectSeq(valid, BySection)
    IN  [i \in 1..Len(all) |-> all[Len(all) + 1 - i]]

\* filterUrlsBySection whose '/docs/' branch lacks its return and falls
\* through to the default case
filterUrlsBySection_fallsThrough(links, section, version) ==
    LET valid == validLinks(links, version)
        ByRegex(url) == RegExpTest(section, Pop(SplitSlash(url)))
        ByGithub(url) == StartsWith(url, GithubPrefix)
        BySection(url) == Includes(url, section)
    IN  IF StartsWith(section, <<"^">>) THEN SelectSeq(valid, ByRegex)
        ELSE IF section = GithubSection THEN SelectSeq(valid, ByGithub)
        ELSE SelectSeq(valid, BySection)

\* filterUrlsBySection whose regex branch tests every segment of the url
filterUrlsBySection_anySegment(links, section, version) ==
    LET valid == validLinks(links, version)
        ByRegex(url) ==
            LET parts == SplitSlash(url)
            IN  \E i \in 1..Len(parts) : RegExpTest(section, parts[i])
        ByGithub(url) == StartsWith(url, GithubPrefix)
        ByDocs(url) ==
            LET parts == SplitSlash(url)
            IN  Len(parts) = 4 /\ EndsWith(parts[4], <<".md">>)
        BySection(url) == Includes(url, section)
    IN  IF StartsWith(section, <<"^">>) THEN SelectSeq(valid, ByRegex)
        ELSE IF section = GithubSection THEN SelectSeq(valid, ByGithub)
        ELSE IF section = DocsSection THEN SelectSeq(valid, ByDocs)
        ELSE SelectSeq(valid, BySection)

\* filterUrlsBySection whose '/docs/' branch accepts any depth
filterUrlsBySection_docsAnyDepth(links, section, version) ==
    LET valid == validLinks(links, version)
        ByRegex(url) == RegExpTest(section, Pop(SplitSlash(url)))
        ByGithub(url) == StartsWith(url, GithubPrefix)
        ByDocs(url) ==
            LET parts == SplitSlash(url)
            IN  Len(parts) >= 4 /\ EndsWith(Pop(parts), <<".md">>)
        BySection(url) == Includes(url, section)
    IN  IF StartsWith(section, <<"^">>) THEN SelectSeq(valid, ByRegex)
        ELSE IF section = GithubSection THEN SelectSeq(valid, ByGithub)
        ELSE IF section = DocsSection THEN SelectSeq(valid, ByDocs)
        ELSE SelectSeq(valid, BySection)

\* filterUrlsBySection whose literal sections keep only the pages that lie
\* directly in the section's directory
filterUrlsBySection_directChildren(links, section, version) ==
    LET valid == validLinks(links, version)
        ByRegex(url) == RegExpTest(section, Pop(SplitSlash(url)))
        ByGithub(url) == StartsWith(url, GithubPrefix)
        ByDocs(url) ==
            LET parts == SplitSlash(url)
            IN  Len(parts) = 4 /\ EndsWith(parts[4], <<".md">>)
        BySection(url) ==
            LET at == IndexOf(url, section, 0)
            IN  at # -1 /\ ~Includes(Substring(url, at + Len(section)), Slash)
    IN  IF StartsWith(section, <<"^">>) THEN SelectSeq(valid, ByRegex)
        ELSE IF section = GithubSection THEN SelectSeq(valid, ByGithub)
        ELSE IF section = DocsSection THEN SelectSeq(valid, ByDocs)
        ELSE SelectSeq(valid, BySection)

\* filterUrlsBySection(links, section, version)
filterUrlsBySection(links, section, version) ==
    LET valid == validLinks(links, version)
        ByRegex(url) == RegExpTest(section, Pop(SplitSlash(url)))
        ByGithub(url) == StartsWith(url, GithubPrefix)
        ByDocs(url) ==
            LET parts == SplitSlash(url)
            IN  Len(parts) = 4 /\ EndsWith(parts[4], <<".md">>)
        BySection(url) == Includes(url, section)
    IN  IF StartsWith(section, <<"^">>) THEN SelectSeq(valid, ByRegex)
        ELSE IF section = GithubSection THEN SelectSeq(valid, ByGithub)
        ELSE IF section = DocsSection THEN SelectSeq(valid, ByDocs)
        ELSE SelectSeq(valid, BySection)

\* uri.match(/\/specification\/([^/]+)\//): the captured group, or <<>> if none
SpecVersionMatch(uri) ==
    LET parts == SplitSlash(uri)
        hits == {i \in 2..(Len(parts) - 2) :
                    parts[i] = <<"specification">> /\ parts[i + 1] # <<>>}
    IN  IF hits = {} THEN <<>>
        ELSE parts[(CHOOSE i \in hits : \A j \in hits : i <= j) + 1]

\* extractVersionFromUri without the test against SUPPORTED_VERSIONS
extractVersionFromUri_unchecked(uri) ==
    LET versionMatch == SpecVersionMatch(uri)
    IN  IF versionMatch # <<>> THEN versionMatch ELSE VERSION

\* extractVersionFromUri(uri)
extractVersionFromUri(uri) ==
    LET versionMatch == SpecVersionMatch(uri)
    IN  IF versionMatch # <<>> /\ ArrIncludes(SUPPORTED_VERSIONS, versionMatch)
        THEN versionMatch
        ELSE VERSION

\* uri.match(/\/specification\/[^/]+\/<tail>$/), tail given as its path segments
MatchesSpecPath(uri, tail) ==
    LET parts == SplitSlash(uri)
        n == Len(parts)
        k == Len(tail)
    IN  /\ n >= k + 3
        /\ SubSeq(parts, n - k + 1, n) = tail
        /\ parts[n - k] # <<>>
        /\ parts[n - k - 1] = <<"specification">>

IndexMd == <<"index", ".md">>

\* the if/else-if chain of the ReadResource handler
Dispatch(uri) ==
    LET Sec(s, useVersion) == [kind |-> "section", section |-> s, versioned |-> useVersion]
    IN  IF MatchesSpecPath(uri, << <<"architecture">>, IndexMd >>)
            THEN Sec(<<"/", "architecture", "/">>, TRUE)
        ELSE IF MatchesSpecPath(uri, << <<"basic">>, IndexMd >>)
            THEN Sec(<<"/", "basic", "/">>, TRUE)
        ELSE IF MatchesSpecPath(uri, << <<"basic">>, <<"utilities">>, IndexMd >>)
            THEN Sec(<<"/", "basic", "/", "utilities", "/">>, TRUE)
        ELSE IF MatchesSpecPath(uri, << <<"server">>, IndexMd >>)
            THEN Sec(<<"/", "server", "/">>, TRUE)
        ELSE IF MatchesSpecPath(uri, << <<"client">>, IndexMd >>)
            THEN Sec(<<"/", "client", "/">>, TRUE)
        ELSE IF MatchesSpecPath(uri, << IndexMd >>)
            THEN [kind |-> "complete"]
        ELSE IF uri = Site \o <<"/", "quickstart", "/">> \o IndexMd
            THEN Sec(<<"/", "quickstart", "/">>, FALSE)
        ELSE IF uri = Site \o <<"/", "development", "/">> \o IndexMd
            THEN Sec(<<"/", "development", "/">>, FALSE)
        ELSE IF uri = Site \o <<"/", "sdk", "/">> \o IndexMd
            THEN Sec(<<"/", "sdk", "/">>, FALSE)
        ELSE IF uri = Site \o <<"/", "tutorials", "/">> \o IndexMd
            THEN Sec(<<"/", "tutorials", "/">>, FALSE)
        ELSE IF uri = Site \o <<"/", "docs", "/">> \o IndexMd
            THEN Sec(DocsSection, FALSE)
        ELSE IF MatchesSpecPath(uri, << <<"schema", ".json">> >>)
            THEN [kind |-> "schema"]
        ELSE [kind |-> "unknown"]

\* text.match(/\(([^)]+)\)/g)?.map(link => link.slice(1, -1)) || []
RECURSIVE ParseLinks(_)
ParseLinks(text) ==
    LET open == IndexOf(text, <<"(">>, 0)
    IN  IF open = -1 THEN <<>>
        ELSE LET close == IndexOf(text, <<")">>, open + 1)
             IN  IF close = -1 THEN <<>>
                 ELSE IF close = open + 1
                      THEN CHOOSE r \in {ParseLinks(rest) :
                                             rest \in {Substring(text, open + 1)}} : TRUE
                      ELSE <<SubSeq(text, open + 2, close)>>
                               \o (CHOOSE r \in {ParseLinks(rest) :
                                                  rest \in {Substring(text, close + 1)}} : TRUE)

\* ------------------------------------------------------------- cache keys
SchemaUrlPrefix ==
    <<"https:", "/", "/", "raw.githubusercontent.com", "/", "modelcontextprotocol",
      "/", "specification", "/", "refs", "/", "heads", "/", "main", "/", "schema", "/">>

\* getSchemaUrlForVersion(version)
getSchemaUrlForVersion(version) == SchemaUrlPrefix \o version \o <<"/", "schema", ".json">>

SCHEMA_URL == SchemaUrlPrefix \o VERSION \o <<"/", "schema", ".json">>

\* the key 'llms.txt' of fetchLinksList
LinksKey == <<"llms", ".txt">>

\* -------------------------------------------------------- remote outcomes
\* What `await fetch(url)` followed by response.text() / response.json() yields:
\* a body with an ok status, a non-ok status, or a thrown transport error.
Ok(body) == [t |-> "ok", body |-> body]
Http(status) == [t |-> "http", status |-> status]
Throw(msg) == [t |-> "throw", msg |-> msg]

\* error.message in the catch blocks
\* (`HTTP error! Status: ${response.status}` or the message of the thrown error)
errorMessage(outcome) ==
    IF outcome.t = "http" THEN <<"HTTP error! Status: ", outcome.status>> ELSE outcome.msg

\* McpError(code, message); its message is prefixed by the SDK
McpError(code, message) == [threw |-> TRUE, code |-> code, message |-> message]
Returned(val) == [threw |-> FALSE, val |-> val]

\* ---------------------------------------------------------------- universe
B1 == Site \o <<"/", "specification", "/", "2025-03-26", "/", "basic", "/", "index", ".md">>
B2 == Site \o <<"/", "specification", "/", "draft", "/", "basic", "/", "utilities",
                "/", "ping", ".md">>
B3 == Site \o <<"/", "specification", "/", "draft", "/", "basic", "/", "index", ".md">>
D1 == Site \o <<"/", "introduction", ".md">>

Paren(url) == <<"(">> \o url \o <<")">>

\* bodies served for https://modelcontextprotocol.io/llms.txt
LlmsBodies ==
    { <<"# ", "MCP", "\n", "[", "MCP", "]">> \o Paren(<<"MCP">>) \o Paren(B1) \o <<"\n">>
          \o Paren(B2) \o Paren(B3) \o <<"(", ")">> \o Paren(D1) \o Paren(D1) }

\* a page of VERSION that lies under /basic/ and under /basic/utilities/
U1 == Site \o <<"/", "specification", "/", "2025-03-26", "/", "basic", "/", "utilities",
                "/", "ping", ".md">>

\* bodies served for llms.txt by a site whose only page of VERSION is U1
NestedLlmsBodies ==
    { <<"# ", "MCP", "\n", "[", "MCP", "]">> \o Paren(<<"MCP">>) \o Paren(U1) \o <<"\n">>
          \o Paren(B3) }

\* bodies served for a documentation fragment, character by character: the
\* specification pages keep their content, the introduction page is edited
PlainBody == <<"x">>
FrontMatterBody == <<"-", "-", "-", "m", "-", "-", "-", "\n", "y", " ">>

FragBodies(url) ==
    IF url = B1 THEN {PlainBody}
    ELSE IF url = D1 THEN {PlainBody, FrontMatterBody}
    ELSE {FrontMatterBody}

SchemaRevs == {"r1"}

SchemaOutcomes(version) ==
    {Ok(JsonObj(version, r)) : r \in SchemaRevs} \cup {Ok(JsonFalse), Http("404")}
LinksOutcomes == {Ok(b) : b \in LlmsBodies} \cup {Throw(<<"ECONNREFUSED">>)}
NestedLinksOutcomes == {Ok(b) : b \in NestedLlmsBodies} \cup {Throw(<<"ECONNREFUSED">>)}
FragOutcomes(url) ==
    {Ok(b) : b \in FragBodies(url)} \cup {Http("404"), Throw(<<"ECONNREFUSED">>)}

SpecUri(version, tail) == Site \o <<"/", "specification", "/">> \o version \o tail

\* the URIs of the ReadResource requests
ReadUris ==
    {SpecUri(<<"draft">>, <<"/", "index", ".md">>),
     SpecUri(<<"draft">>, <<"/", "schema", ".json">>),
     SpecUri(<<"invalid-version">>, <<"/", "schema", ".json">>),
     SpecUri(<<"draft">>, <<"/", "basic", "/", "index", ".md">>),
     Site \o <<"/", "docs", "/", "index", ".md">>,
     Site \o <<"/", "nothing", ".md">>}

\* requests for the versioned resources, with supported and unsupported versions
VersionedReadUris ==
    {SpecUri(<<"invalid-version">>, <<"/", "schema", ".json">>),
     SpecUri(<<"invalid-version">>, <<"/", "basic", "/", "index", ".md">>),
     SpecUri(<<"1.0.0">>, <<"/", "basic", "/", "utilities", "/", "index", ".md">>),
     SpecUri(<<"2024-11-05">>, <<"/", "schema", ".json">>),
     SpecUri(<<"draft">>, <<"/", "basic", "/", "index", ".md">>)}

\* the arguments of the direct calls of getSchemaForVersion
CallVersions == {<<"2025-03-26">>, <<"2023-01-01">>}

\* the URI of the complete specification in `resources`
CompleteSpecUri == SpecUri(VERSION, <<"/", "index", ".md">>)

EXPLAIN_PROMPT == "explain"
EVALUATE_SERVER_PROMPT == "evaluate_server_compliance"

\* request.params of the GetPrompt requests: name and arguments (Null: absent)
PromptParams ==
    {[name |-> EVALUATE_SERVER_PROMPT, path |-> Str(<<"repo">>), topic |-> Null],
     [name |-> EVALUATE_SERVER_PROMPT, path |-> Null, topic |-> Str(<<"tools">>)],
     [name |-> EXPLAIN_PROMPT, path |-> Null, topic |-> Str(<<"tools">>)],
     [name |-> EXPLAIN_PROMPT, path |-> Null, topic |-> Str(<<>>)],
     [name |-> "summarize", path |-> Null, topic |-> Null]}

\* ------------------------------------------------------------------ texts
\* JSON.stringify(schema, null, 2)
Stringify(schema) ==
    IF schema.t = "obj"
    THEN <<"{ \"$schema\": ">> \o schema.ver \o <<"#", schema.rev, " }">>
    ELSE <<"false">>

\* a front-matter step that looks for the second marker from position 1
ProcessMarkdown_searchesFromOne(body, url) ==
    LET secondDash == IndexOf(body, <<"-", "-", "-">>, 1)
        markdown == IF StartsWith(body, <<"-", "-", "-">>) /\ secondDash # -1
                    THEN Trim(Substring(body, secondDash + 3))
                    ELSE body
    IN  markdown \o <<"\n\n---\n*Source: [">> \o url \o <<"](">> \o url \o <<")*\n">>

\* the front-matter step and the provenance footer of fetchMarkdownContent
ProcessMarkdown(body, url) ==
    LET secondDash == IndexOf(body, <<"-", "-", "-">>, 3)
        markdown == IF StartsWith(body, <<"-", "-", "-">>) /\ secondDash # -1
                    THEN Trim(Substring(body, secondDash + 3))
                    ELSE body
    IN  markdown \o <<"\n\n---\n*Source: [">> \o url \o <<"](">> \o url \o <<")*\n">>

\* a catch block of fetchMarkdownContent that rethrows
fetchMarkdownContent_catch_rethrows(url, msg) == [threw |-> TRUE, message |-> msg]

\* the catch block of fetchMarkdownContent: an error message, never a throw
fetchMarkdownContent_catch(url, msg) ==
    Returned(<<"**Error:** Failed to load content from ">> \o url \o <<": ">> \o msg)

\* fetchMarkdownContent(url) once its fetch has settled with `outcome`
fetchMarkdownContent_settle(url, outcome) ==
    IF outcome.t = "ok"
    THEN Returned(ProcessMarkdown(outcome.body, url))
    ELSE fetchMarkdownContent_catch(url, errorMessage(outcome))

\* a catch block of getSchema that logs the failure and returns nothing
getSchema_catch_swallows(c, msg) == Returned(Cache_getExpired(c, SCHEMA_URL))

\* the catch block of getSchema
getSchema_catch(c, msg) ==
    LET expired == Cache_getExpired(c, SCHEMA_URL)
    IN  IF Truthy(expired) THEN Returned(expired)
        ELSE McpError("InternalError", <<"Failed to fetch schema: ">> \o msg)

\* the catch block of getSchemaForVersion
getSchemaForVersion_catch(c, version, msg) ==
    LET expired == Cache_getExpired(c, getSchemaUrlForVersion(version))
    IN  IF Truthy(expired) THEN Returned(expired)
        ELSE McpError("InternalError",
                      <<"Failed to fetch schema for version ">> \o version \o <<": ">> \o msg)

\* a catch block of fetchLinksList that answers with an empty list
fetchLinksList_catch_returnsEmpty(c, msg) ==
    [threw |-> FALSE, val |-> Arr(<<>>), message |-> msg]

\* the catch block of fetchLinksList
fetchLinksList_catch(c, msg) ==
    McpError("InternalError", <<"Failed to fetch links list: ">> \o msg)

\* the wrapping catch blocks of getCompleteResourceDoc and of the handler
Wrap(prefix, err) == McpError("InternalError", prefix \o err.message)

CouldNotGenerate == <<"Could not generate complete specification: ">>
CouldNotReadSchema == <<"Could not read schema resource: ">>

\* results collected as the promises settle
PromiseAll_bySettlement(results, order) == [i \in 1..Len(order) |-> results[order[i]]]

\* Promise.all(promises): the results by position; `order` (the order in
\* which the promises settled) plays no part
PromiseAll(results, order) == [i \in 1..Len(order) |-> results[i]]

\* the map callback of the handler: a divider before every page but the first
\* (fileName and sectionName are values, as the source's constants are)
WithDivider(url, index, content) ==
    IF index > 0
    THEN CHOOSE r \in
             {<<"\n\n## ">> \o sectionName \o <<"\n\n">> \o content :
                 sectionName \in
                     {ReplaceFirst(withoutMd, <<"_index">>, <<"Overview">>) :
                         withoutMd \in {ReplaceFirst(fileName, <<".md">>, <<>>) :
                                           fileName \in {Pop(SplitSlash(url))}}}} : TRUE
    ELSE content

\* the handler's combined document for `urls` with fetched `contents`
CombinedMarkdown(urls, contents) ==
    JoinWith([i \in 1..Len(urls) |-> WithDivider(urls[i], i - 1, contents[i])],
             <<"\n\n">>)

\* the section list of getCompleteResourceDoc
sections ==
    << <<"architecture">>, <<"basic">>, <<"basic", "/", "utilities">>,
       <<"client">>, <<"server">>, <<"server", "/", "utilities">> >>

\* charAt(0).toUpperCase() + slice(1) on the section titles
UpperFirst(title) ==
    CASE title = <<"architecture">> -> <<"Architecture">>
      [] title = <<"basic">>        -> <<"Basic">>
      [] title = <<"utilities">>    -> <<"Utilities">>
      [] title = <<"client">>       -> <<"Client">>
      [] title = <<"server">>       -> <<"Server">>
      [] OTHER                      -> title

\* allLinks.filter(...) of getCompleteResourceDoc
specLinksOf(allLinks) ==
    LET IsSpec(url) ==
            /\ Includes(url, <<"/", "specification", "/">> \o VERSION \o <<"/">>)
            /\ ~Includes(url, <<"schema", ".json">>)
    IN  SelectSeq(allLinks, IsSpec)

\* the content item of one section of the complete specification
SectionItem(baseUri, section, sectionContents) ==
    LET sectionTitle == Pop(SplitSlash(section))
    IN  [uri |-> baseUri \o <<"#">> \o section,
         text |-> <<"# ">> \o UpperFirst(sectionTitle) \o <<"\n\n">>
                      \o JoinWith(sectionContents, <<"\n\n">>),
         mimeType |-> "text/markdown"]

\* the first line of getCombinedCompleteResourceDoc's document
CombinedTitle == <<"# Model Context Protocol Documentation\n\n">>

\* what one section adds to `completeDoc`
CombinedSection(section, sectionContents) ==
    LET sectionTitle == Pop(SplitSlash(section))
    IN  <<"\n\n## ">> \o UpperFirst(sectionTitle) \o <<"\n\n">>
            \o JoinWith(sectionContents, <<"\n\n">>)

\* the GetPrompt handler's result for `params` and the combined document
PromptResult(params, doc) ==
    [description |->
         IF params.name = EVALUATE_SERVER_PROMPT
         THEN "Model Context Protocol (MCP) specification compliance evaluation for server repository"
         ELSE "Comprehensive explanation of Model Context Protocol (MCP) topic with full documentation",
     messages |->
         << [role |-> "user",
             content |-> [type |-> "text",
                          text |-> IF params.name = EVALUATE_SERVER_PROMPT
                                   THEN <<"Please evaluate the MCP server implementation at path: ">>
                                            \o params.path.v \o <<" for compliance ...">>
                                   ELSE <<"Please explain ">> \o params.topic.v
                                            \o <<" as it relates to ...">>]],
            [role |-> "user",
             content |-> [type |-> "resource",
                          resource |-> [uri |-> CompleteSpecUri,
                                        mimeType |-> "text/markdown",
                                        text |-> doc]]] >>]

SchemaItem(baseUri, schema) ==
    [uri |-> baseUri \o <<"#", "schema">>,
     text |-> Stringify(schema),
     mimeType |-> "application/json"]

\* ------------------------------------------------------------------- state
VARIABLES
    now,        \* Date.now()
    cache,      \* Cache.cache : key -> CacheEntry
    pc,         \* where the operation in progress is suspended
    req,        \* the operation in progress (a ReadResource request with the branch
                \* the handler takes for its uri, or a direct call)
    version,    \* the handler's `version` (the argument, for a direct call)
    schema,     \* getCompleteResourceDoc's `schema`
    links,      \* the result of fetchLinksList
    secIdx,     \* position of getCompleteResourceDoc's loop in `sections`
    urls,       \* the locators whose fetches were issued together
    frag,       \* the fetchMarkdownContent call of every position of `urls`
    order,      \* the positions of `urls` in the order their calls settled
    contents,   \* getCompleteResourceDoc's `contents`
    completeDoc, \* getCombinedCompleteResourceDoc's `completeDoc`
    response,   \* what the last operation returned or threw
    fetched,    \* how the schema and the links list were obtained in this operation,
                \* and the keys it has passed to Cache.getExpired
    lastSet,    \* for every key, the data, time and number of its direct Cache.set calls
    ret,        \* the last direct Cache call and what it returned
    fetches,    \* number of remote fetches that have settled
    ticks       \* number of times the clock has advanced

locals == <<schema, links, secIdx, urls, frag, order, contents, completeDoc>>
vars == <<now, cache, pc, req, version, schema, links, secIdx, urls, frag, order,
          contents, completeDoc, response, fetched, lastSet, ret, fetches, ticks>>

\* the values of Date.now(): the start, the last millisecond of an entry
\* written at the start, and its expiry
Instants == {0, TTL - 1, TTL}

NoRet == [op |-> "none"]
NoReq == [kind |-> "none"]
NoResponse == [threw |-> FALSE, val |-> Null, none |-> TRUE]
NotFetched == [schema |-> "none", links |-> "none", expired |-> <<>>]

Init ==
    /\ now = 0
    /\ cache = << >>
    /\ pc = "idle"
    /\ req = NoReq
    /\ version = VERSION
    /\ schema = Null
    /\ links = <<>>
    /\ secIdx = 1
    /\ urls = <<>>
    /\ frag = <<>>
    /\ order = <<>>
    /\ contents = <<>>
    /\ completeDoc = <<>>
    /\ response = NoResponse
    /\ fetched = NotFetched
    /\ lastSet = << >>
    /\ ret = NoRet
    /\ fetches = 0
    /\ ticks = 0

\* Time passes while the program is idle or awaits a fetch (Date.now() is read
\* from a non-decreasing clock; synchronous code takes no time).
Awaiting ==
    pc \in {"idle", "done", "getSchema_fetch", "getSchemaForVersion_fetch",
            "fetchLinksList_fetch", "fetchMarkdownContent"}

Tick ==
    /\ Awaiting
    /\ ticks < MaxTicks
    /\ ticks' = ticks + 1
    /\ \E t \in Instants : t > now /\ now' = t
    /\ ret' = NoRet
    /\ UNCHANGED <<cache, pc, req, version, locals, response, fetched, lastSet, fetches>>

\* the record of the Cache.set calls, kept beside the cache
Written(ls, key, data, t) ==
    [k \in DOMAIN ls \cup {key} |->
        IF k = key
        THEN [data |-> data, at |-> t,
              n |-> IF key \in DOMAIN ls /\ ls[key].n >= 1 THEN 2 ELSE 1]
        ELSE ls[k]]

\* a call of Cache.set(key, data) inside an operation
SetCache(key, data) ==
    /\ cache' = Cache_set(cache, key, data, now)
    /\ UNCHANGED lastSet

\* ------------------------------------------------- the Cache class, direct
DirectKeys == {LinksKey, SCHEMA_URL}
DirectValues == {JsonObj(VERSION, "r1"), JsonFalse, Str(<<"x">>), Arr(<<>>)}

DoSet(key, data) ==
    /\ cache' = Cache_set(cache, key, data, now)
    /\ lastSet' = Written(lastSet, key, data, now)
    /\ ret' = [op |-> "set", key |-> key, arg |-> data, pre |-> cache]
    /\ UNCHANGED <<now, ticks, pc, req, version, locals, response, fetched, fetches>>

\* a Cache.get that deletes the entry it finds expired
DoGet_evicts(key) ==
    /\ ret' = [op |-> "get", key |-> key, val |-> Cache_get(cache, key, now),
               pre |-> cache]
    /\ cache' = IF key \in DOMAIN cache /\ now - cache[key].timestamp >= TTL
                THEN [k \in DOMAIN cache \ {key} |-> cache[k]]
                ELSE cache
    /\ UNCHANGED <<now, ticks, pc, req, version, locals, response, fetched, lastSet, fetches>>

DoGet(key) ==
    /\ ret' = [op |-> "get", key |-> key, val |-> Cache_get(cache, key, now),
               pre |-> cache]
    /\ UNCHANGED <<now, ticks, cache, pc, req, version, locals, response, fetched, lastSet, fetches>>

DoGetExpired(key) ==
    /\ ret' = [op |-> "getExpired", key |-> key,
               val |-> Cache_getExpired(cache, key), pre |-> cache]
    /\ UNCHANGED <<now, ticks, cache, pc, req, version, locals, response, fetched, lastSet, fetches>>

CacheSet == \E key \in DirectKeys, data \in DirectValues : DoSet(key, data)
CacheGet == \E key \in DirectKeys : DoGet(key)
CacheGetExpired == \E key \in DirectKeys : DoGetExpired(key)

NextCache == Tick \/ CacheSet \/ CacheGet \/ CacheGetExpired

SpecCache == Init /\ [][NextCache]_vars

\* ------------------------------------------- the exported helpers, direct
\* One call of a helper per behaviour: the helpers are pure.
\* the links handed to filterUrlsBySection by a caller such as testUrlMatching
Old24 == <<"/", "2024-11-05", "/", "basic", "/", "x">>
New25 == <<"/", "2025-03-26", "/", "basic", "/", "x">>
NoVersion == <<"/", "basic", "/", "y">>
testDraftUrl == Site \o <<"/", "specification", "/", "draft", "/", "index", ".md">>
TwoVersions ==
    Site \o <<"/", "specification", "/", "2025-03-26", "/", "basic", "/", "draft", "/",
              "index", ".md">>
NestedDoc == Site \o <<"/", "docs", "/", "concepts", "/", "tools", ".md">>
UnderMd == Site \o <<"/", "introduction", ".md", "/", "raw">>
GithubSdk == GithubPrefix \o <<"typescript-sdk">>
GithubDraft == GithubPrefix \o <<"specification", "/", "draft", "/", "README", ".md">>
DraftHost == <<"https:", "/", "/", "draft", "/", "x", ".md">>

FilterLinks ==
    {<<>>, <<"MCP">>, Old24, New25, NoVersion, testDraftUrl, TwoVersions, D1, NestedDoc,
     UnderMd, GithubSdk, GithubDraft, DraftHost}

FilterLists == UNION {[1..n -> FilterLinks] : n \in 0..MaxLinks}

FilterSections ==
    {<<"/", "basic", "/">>, <<"MCP">>, TopLevelMdPattern, <<"^", "MCP", "$">>,
     GithubSection, DocsSection}

FilterVersions == {<<"2025-03-26">>, <<"2024-11-05">>, <<"draft">>}

\* filterUrlsBySection(links, section, version), and the same call on its result
CallFilterUrlsBySection(ls, section, v) ==
    /\ LET val == filterUrlsBySection(ls, section, v)
       IN  ret' = [op |-> "filterUrlsBySection", links |-> ls, section |-> section,
                   version |-> v, val |-> val,
                   again |-> filterUrlsBySection(val, section, v)]
    /\ UNCHANGED <<now, ticks, cache, pc, req, version, locals, response, fetched, lastSet,
                   fetches>>

FilterUrlsBySection ==
    /\ pc = "idle"
    /\ ret = NoRet
    /\ \E ls \in FilterLists, section \in FilterSections, v \in FilterVersions :
           CallFilterUrlsBySection(ls, section, v)

\* the URIs handed to extractVersionFromUri
ExtractUris ==
    {SpecUri(v, <<"/", "index", ".md">>) :
         v \in {<<"draft">>, <<"2024-11-05">>, <<"2025-03-26">>, <<"invalid-version">>,
                <<"1.0.0">>, <<"2023-01-01">>}}
    \cup {SpecUri(<<"draft">>, <<"/", "basic", "/", "index", ".md">>),
          SpecUri(<<"draft">>, <<>>),
          SpecUri(<<"1.0.0">>, <<>>),
          SpecUri(<<>>, <<>>),
          SpecUri(<<>>, <<"/", "specification", "/", "draft", "/", "x">>),
          Site \o <<"/", "docs", "/", "index", ".md">>,
          Site \o <<"/", "docs", "/", "specification", "/", "2024-11-05", "/", "specification",
                    "/", "draft", "/", "index", ".md">>}

\* extractVersionFromUri(uri): it has no throw statement
CallExtractVersionFromUri(uri) ==
    /\ ret' = [op |-> "extractVersionFromUri", uri |-> uri,
               res |-> Returned(extractVersionFromUri(uri))]
    /\ UNCHANGED <<now, ticks, cache, pc, req, version, locals, response, fetched, lastSet,
                   fetches>>

ExtractVersionFromUri ==
    /\ pc = "idle"
    /\ ret = NoRet
    /\ \E uri \in ExtractUris : CallExtractVersionFromUri(uri)

\* the values of process.env.DEFAULT_SPEC_VERSION when the module is loaded
\* (Null: not set)
EnvVersions == {Null, Str(<<"draft">>), Str(<<"2024-11-05">>), Str(<<"2025-03-26">>)}

\* the module's top-level constants evaluated with the environment `env`: no
\* statement of the module reads process.env
LoadModuleWith(env) ==
    /\ ret' = [op |-> "load", env |-> env, VERSION |-> VERSION,
               completeSpecUri |-> CompleteSpecUri,
               sectionLinks |-> filterUrlsBySection(<<New25, testDraftUrl, Old24>>,
                                                    <<"/", "basic", "/">>, VERSION)]
    /\ UNCHANGED <<now, ticks, cache, pc, req, version, locals, response, fetched, lastSet,
                   fetches>>

LoadModule ==
    /\ pc = "idle"
    /\ ret = NoRet
    /\ \E env \in EnvVersions : LoadModuleWith(env)

\* the bodies served for a fragment, character by character
BodyChars == {"-", "x", " "}
Bodies == UNION {[1..n -> BodyChars] : n \in 0..MaxBody}

\* fetchMarkdownContent(url) on an empty cache, its fetch answered with `body`
CallFetchMarkdownContent(url, body) ==
    LET r == fetchMarkdownContent_settle(url, Ok(body))
    IN  /\ cache' = Cache_set(cache, url, Str(r.val), now)
        /\ ret' = [op |-> "fetchMarkdownContent", url |-> url, body |-> body, res |-> r]
        /\ UNCHANGED <<now, ticks, pc, req, version, locals, response, fetched, lastSet,
                       fetches>>

FetchMarkdownContent ==
    /\ pc = "idle"
    /\ ret = NoRet
    /\ \E body \in Bodies : CallFetchMarkdownContent(D1, body)

NextHelpers ==
    FilterUrlsBySection \/ ExtractVersionFromUri \/ LoadModule \/ FetchMarkdownContent

SpecHelpers == Init /\ [][NextHelpers]_vars

\* ------------------------------------------------------------- operations
IsRead == req.kind = "read"
IsComplete == IsRead /\ req.branch.kind = "complete"
IsPrompt == req.kind = "prompt"

StartLocals ==
    /\ schema' = Null
    /\ links' = <<>>
    /\ secIdx' = 1
    /\ urls' = <<>>
    /\ frag' = <<>>
    /\ order' = <<>>
    /\ contents' = <<>>
    /\ completeDoc' = <<>>
    /\ fetched' = NotFetched
    /\ ret' = NoRet

\* a ReadResource handler that loads the links list before it looks at the URI
HandleRead_fetchesFirst(uri) ==
    LET d == Dispatch(uri)
    IN  /\ pc \in {"idle", "done"}
        /\ req' = [kind |-> "read", uri |-> uri, branch |-> d]
        /\ version' = extractVersionFromUri(uri)
        /\ pc' = CASE d.kind = "complete" -> "getSchema"
                   [] d.kind = "schema"   -> "getSchemaForVersion"
                   [] OTHER               -> "fetchLinksList"
        /\ response' = NoResponse
        /\ StartLocals
        /\ UNCHANGED <<now, ticks, cache, lastSet, fetches>>

\* a ReadResource handler that takes the version segment of the URI as it is
HandleRead_rawVersion(uri) ==
    LET d == Dispatch(uri)
    IN  /\ pc \in {"idle", "done"}
        /\ req' = [kind |-> "read", uri |-> uri, branch |-> d]
        /\ version' = extractVersionFromUri_unchecked(uri)
        /\ pc' = CASE d.kind = "section"  -> "fetchLinksList"
                   [] d.kind = "complete" -> "getSchema"
                   [] d.kind = "schema"   -> "getSchemaForVersion"
                   [] OTHER               -> "done"
        /\ response' = IF d.kind = "unknown"
                       THEN McpError("MethodNotFound", <<"Unknown resource: ">> \o uri)
                       ELSE NoResponse
        /\ StartLocals
        /\ UNCHANGED <<now, ticks, cache, lastSet, fetches>>

\* the ReadResource handler up to its first await
HandleRead(uri) ==
    LET d == Dispatch(uri)
    IN  /\ pc \in {"idle", "done"}
        /\ req' = [kind |-> "read", uri |-> uri, branch |-> d]
        /\ version' = extractVersionFromUri(uri)
        /\ pc' = CASE d.kind = "section"  -> "fetchLinksList"
                   [] d.kind = "complete" -> "getSchema"
                   [] d.kind = "schema"   -> "getSchemaForVersion"
                   [] OTHER               -> "done"
        /\ response' = IF d.kind = "unknown"
                       THEN McpError("MethodNotFound", <<"Unknown resource: ">> \o uri)
                       ELSE NoResponse
        /\ StartLocals
        /\ UNCHANGED <<now, ticks, cache, lastSet, fetches>>

ReadResource == \E uri \in ReadUris : HandleRead(uri)

\* the GetPrompt handler up to its first await
HandlePrompt(params) ==
    LET arg == IF params.name = EVALUATE_SERVER_PROMPT THEN params.path ELSE params.topic
        known == params.name \in {EVALUATE_SERVER_PROMPT, EXPLAIN_PROMPT}
    IN  /\ pc \in {"idle", "done"}
        /\ req' = [kind |-> "prompt", params |-> params]
        /\ version' = VERSION
        /\ IF ~known
           THEN /\ response' = McpError("MethodNotFound",
                                        <<"Unknown prompt: ", params.name>>)
                /\ pc' = "done"
           ELSE IF ~Truthy(arg)
           THEN /\ response' = McpError("InvalidParams",
                                        IF params.name = EVALUATE_SERVER_PROMPT
                                        THEN <<"Path argument is required">>
                                        ELSE <<"Topic argument is required">>)
                /\ pc' = "done"
           ELSE /\ response' = NoResponse
                /\ pc' = "fetchLinksList"
        /\ StartLocals
        /\ UNCHANGED <<now, ticks, cache, lastSet, fetches>>

GetPrompt == \E params \in PromptParams : HandlePrompt(params)

\* a read of the complete specification
ReadComplete == HandleRead(CompleteSpecUri)

\* a direct call of getSchemaForVersion(v), as made by test-url-matching
CallSchemaForVersion(v) ==
    /\ pc \in {"idle", "done"}
    /\ req' = [kind |-> "call", arg |-> v]
    /\ version' = v
    /\ pc' = "getSchemaForVersion"
    /\ response' = NoResponse
    /\ StartLocals
    /\ UNCHANGED <<now, ticks, cache, lastSet, fetches>>

CallGetSchemaForVersion == \E v \in CallVersions : CallSchemaForVersion(v)

\* what the caller of the operation in progress receives when `err` is thrown
\* below getCompleteResourceDoc (wrapped there and again in the handler)
ThrownFromComplete(err) == Wrap(CouldNotGenerate, Wrap(CouldNotGenerate, err))

\* getSchema: Cache.get(SCHEMA_URL) and the return on a hit
GetSchemaCached ==
    /\ pc = "getSchema"
    /\ LET cached == Cache_get(cache, SCHEMA_URL, now)
       IN  IF Truthy(cached)
           THEN /\ schema' = cached
                /\ fetched' = [fetched EXCEPT !.schema = "hit"]
                /\ pc' = "fetchLinksList"
           ELSE /\ pc' = "getSchema_fetch"
                /\ UNCHANGED <<schema, fetched>>
    /\ ret' = NoRet
    /\ UNCHANGED <<now, ticks, cache, req, version, links, secIdx, urls, frag, order,
                   contents, completeDoc, response, lastSet, fetches>>

\* getSchema: the fetch of SCHEMA_URL settles
GetSchemaSettle(outcome) ==
    /\ pc = "getSchema_fetch"
    /\ fetches < MaxFetches
    /\ fetches' = fetches + 1
    /\ ret' = NoRet
    /\ IF outcome.t = "ok"
       THEN /\ SetCache(SCHEMA_URL, outcome.body)
            /\ schema' = outcome.body
            /\ fetched' = [fetched EXCEPT !.schema = "ok"]
            /\ pc' = "fetchLinksList"
            /\ UNCHANGED response
       ELSE LET r == getSchema_catch(cache, errorMessage(outcome))
            IN  /\ fetched' = [fetched EXCEPT !.schema = "failed",
                                              !.expired = Append(@, SCHEMA_URL)]
                /\ UNCHANGED <<cache, lastSet>>
                /\ IF r.threw
                   THEN /\ response' = ThrownFromComplete(r)
                        /\ pc' = "done"
                        /\ UNCHANGED schema
                   ELSE /\ schema' = r.val
                        /\ pc' = "fetchLinksList"
                        /\ UNCHANGED response
    /\ UNCHANGED <<now, ticks, req, version, links, secIdx, urls, frag, order, contents, completeDoc>>

GetSchemaFetch == \E outcome \in SchemaOutcomes(VERSION) : GetSchemaSettle(outcome)

\* the handler's answer for schema.json, or the direct call's return value
SchemaAnswer(s) ==
    IF IsRead
    THEN Returned(<< [uri |-> req.uri, text |-> Stringify(s),
                      mimeType |-> "application/json"] >>)
    ELSE Returned(s)

\* a getSchemaForVersion that serves an expired entry before trying the fetch
GetSchemaForVersionCached_staleFirst ==
    /\ pc = "getSchemaForVersion"
    /\ LET key == getSchemaUrlForVersion(version)
           cached == Cache_get(cache, key, now)
           expired == Cache_getExpired(cache, key)
       IN  IF Truthy(cached)
           THEN /\ response' = SchemaAnswer(cached)
                /\ fetched' = [fetched EXCEPT !.schema = "hit"]
                /\ pc' = "done"
           ELSE IF Truthy(expired)
           THEN /\ response' = SchemaAnswer(expired)
                /\ fetched' = [fetched EXCEPT !.schema = "hit",
                                              !.expired = Append(@, key)]
                /\ pc' = "done"
           ELSE /\ pc' = "getSchemaForVersion_fetch"
                /\ fetched' = [fetched EXCEPT !.expired = Append(@, key)]
                /\ UNCHANGED response
    /\ ret' = NoRet
    /\ UNCHANGED <<now, ticks, cache, req, version, locals, lastSet, fetches>>

\* getSchemaForVersion: Cache.get(schemaUrl) and the return on a hit
GetSchemaForVersionCached ==
    /\ pc = "getSchemaForVersion"
    /\ LET cached == Cache_get(cache, getSchemaUrlForVersion(version), now)
       IN  IF Truthy(cached)
           THEN /\ response' = SchemaAnswer(cached)
                /\ fetched' = [fetched EXCEPT !.schema = "hit"]
                /\ pc' = "done"
           ELSE /\ pc' = "getSchemaForVersion_fetch"
                /\ UNCHANGED <<response, fetched>>
    /\ ret' = NoRet
    /\ UNCHANGED <<now, ticks, cache, req, version, locals, lastSet, fetches>>

\* getSchemaForVersion: the fetch of schemaUrl settles
GetSchemaForVersionSettle(outcome) ==
    /\ pc = "getSchemaForVersion_fetch"
    /\ fetches < MaxFetches
    /\ fetches' = fetches + 1
    /\ ret' = NoRet
    /\ pc' = "done"
    /\ IF outcome.t = "ok"
       THEN /\ SetCache(getSchemaUrlForVersion(version), outcome.body)
            /\ response' = SchemaAnswer(outcome.body)
            /\ fetched' = [fetched EXCEPT !.schema = "ok"]
       ELSE LET r == getSchemaForVersion_catch(cache, version, errorMessage(outcome))
            IN  /\ fetched' = [fetched EXCEPT
                                   !.schema = "failed",
                                   !.expired = Append(@, getSchemaUrlForVersion(version))]
                /\ UNCHANGED <<cache, lastSet>>
                /\ response' = IF ~r.threw THEN SchemaAnswer(r.val)
                               ELSE IF IsRead THEN Wrap(CouldNotReadSchema, r)
                               ELSE r
    /\ UNCHANGED <<now, ticks, req, version, locals>>

GetSchemaForVersionFetch ==
    \E outcome \in SchemaOutcomes(version) : GetSchemaForVersionSettle(outcome)

\* the caller of fetchLinksList resumes with `l`
AfterLinks(l) ==
    /\ links' = l
    /\ pc' = "compose"
    /\ contents' = IF IsComplete THEN <<SchemaItem(req.uri, schema)>> ELSE <<>>
    /\ completeDoc' = IF IsPrompt THEN CombinedTitle ELSE <<>>

\* fetchLinksList: Cache.get('llms.txt') and the return on a hit
FetchLinksListCached ==
    /\ pc = "fetchLinksList"
    /\ LET cached == Cache_get(cache, LinksKey, now)
       IN  IF Truthy(cached)
           THEN /\ AfterLinks(cached.v)
                /\ fetched' = [fetched EXCEPT !.links = "hit"]
           ELSE /\ pc' = "fetchLinksList_fetch"
                /\ UNCHANGED <<links, contents, completeDoc, fetched>>
    /\ ret' = NoRet
    /\ UNCHANGED <<now, ticks, cache, req, version, schema, secIdx, urls, frag, order,
                   response, lastSet, fetches>>

\* fetchLinksList: the fetch of llms.txt settles
FetchLinksListSettle(outcome) ==
    /\ pc = "fetchLinksList_fetch"
    /\ fetches < MaxFetches
    /\ fetches' = fetches + 1
    /\ ret' = NoRet
    /\ IF outcome.t = "ok"
       THEN /\ SetCache(LinksKey, Arr(ParseLinks(outcome.body)))
            /\ AfterLinks(ParseLinks(outcome.body))
            /\ fetched' = [fetched EXCEPT !.links = "ok"]
            /\ UNCHANGED response
       ELSE LET r == fetchLinksList_catch(cache, errorMessage(outcome))
            IN  /\ fetched' = [fetched EXCEPT !.links = "failed"]
                /\ response' = IF IsComplete THEN ThrownFromComplete(r)
                               ELSE IF IsPrompt THEN Wrap(CouldNotGenerate, r)
                               ELSE r
                /\ pc' = "done"
                /\ UNCHANGED <<cache, lastSet, links, contents, completeDoc>>
    /\ UNCHANGED <<now, ticks, req, version, schema, secIdx, urls, frag, order>>

FetchLinksListFetch == \E outcome \in LinksOutcomes : FetchLinksListSettle(outcome)

\* calls of a fetchMarkdownContent without `if (cached) return cached`
IssueFetches_skipsCache(us) ==
    /\ urls' = us
    /\ frag' = [i \in 1..Len(us) |-> [st |-> "pending"]]
    /\ order' = <<>>
    /\ pc' = "fetchMarkdownContent"

\* urls.map(url => fetchMarkdownContent(url)): every call runs to its first
\* await; a call that finds a fresh entry has its result at once
IssueFetches(us) ==
    /\ urls' = us
    /\ frag' = [i \in 1..Len(us) |->
                   LET cached == Cache_get(cache, us[i], now)
                   IN  IF Truthy(cached)
                       THEN [st |-> "hit", res |-> Returned(cached.v)]
                       ELSE [st |-> "pending"]]
    /\ order' = LET Hit(i) == Truthy(Cache_get(cache, us[i], now))
                IN  SelectSeq([i \in 1..Len(us) |-> i], Hit)
    /\ pc' = "fetchMarkdownContent"

\* sectionLinks of the section at position j of `sections`
sectionLinksAt(j) ==
    filterUrlsBySection(specLinksOf(links), Slash \o sections[j] \o Slash, VERSION)

\* the handler's section branches: filter, then issue the fetches
ComposeSection ==
    /\ pc = "compose"
    /\ ~IsComplete
    /\ LET d == req.branch
       IN  IssueFetches(filterUrlsBySection(links, d.section,
                                            IF d.versioned THEN version ELSE VERSION))
    /\ ret' = NoRet
    /\ UNCHANGED <<now, ticks, cache, req, version, schema, links, secIdx, contents, completeDoc,
                   response, fetched, lastSet, fetches>>

\* the links handed to the section loop of the complete composition
S1 == Site \o <<"/", "specification", "/", "2025-03-26", "/", "server", "/", "tools", ".md">>
S2 == Site \o <<"/", "specification", "/", "2025-03-26", "/", "server", "/", "utilities",
                "/", "logging", ".md">>
NoVersionUtilities == <<"/", "server", "/", "utilities", "/", "basic", "/", "x">>

SectionLoopLinks == {U1, B1, B2, S1, S2, NoVersionUtilities}

SectionLoopLists == UNION {[1..n -> SectionLoopLinks] : n \in 0..MaxLinks}

\* filterUrlsBySection(links, `/${section}/`, v) for each section of `sections`
CallSectionLoop(ls, v) ==
    /\ ret' = [op |-> "sections", links |-> ls, version |-> v,
               val |-> [j \in 1..Len(sections) |->
                           filterUrlsBySection(ls, Slash \o sections[j] \o Slash, v)]]
    /\ UNCHANGED <<now, ticks, cache, pc, req, version, locals, response, fetched, lastSet,
                   fetches>>

SectionLoop ==
    /\ pc = "idle"
    /\ ret = NoRet
    /\ \E ls \in SectionLoopLists, v \in FilterVersions : CallSectionLoop(ls, v)

\* a loop of getCompleteResourceDoc without `if (sectionLinks.length === 0) continue`
ComposeComplete_keepsEmpty ==
    /\ pc = "compose"
    /\ IsComplete
    /\ IF secIdx > Len(sections)
       THEN /\ response' = Returned(contents)
            /\ pc' = "done"
            /\ UNCHANGED <<secIdx, urls, frag, order>>
       ELSE /\ IssueFetches(sectionLinksAt(secIdx))
            /\ UNCHANGED <<secIdx, response>>
    /\ ret' = NoRet
    /\ UNCHANGED <<now, ticks, cache, req, version, schema, links, contents, completeDoc,
                   fetched, lastSet, fetches>>

\* getCompleteResourceDoc's loop: skip the empty sections, issue the fetches
\* of the next non-empty one, or return `contents` after the last section
ComposeComplete ==
    /\ pc = "compose"
    /\ IsComplete
    /\ LET rest == {j \in secIdx..Len(sections) : sectionLinksAt(j) # <<>>}
       IN  IF rest = {}
           THEN /\ response' = Returned(contents)
                /\ pc' = "done"
                /\ UNCHANGED <<secIdx, urls, frag, order>>
           ELSE LET j == CHOOSE j \in rest : \A k \in rest : j <= k
                IN  /\ secIdx' = j
                    /\ IssueFetches(sectionLinksAt(j))
                    /\ UNCHANGED response
    /\ ret' = NoRet
    /\ UNCHANGED <<now, ticks, cache, req, version, schema, links, contents, completeDoc, fetched,
                   lastSet, fetches>>

\* the filter results of the sections at the positions `js`, one after another
RECURSIVE LinksOfSections(_)
LinksOfSections(js) ==
    IF js = <<>> THEN <<>> ELSE sectionLinksAt(Head(js)) \o LinksOfSections(Tail(js))

\* a getCombinedCompleteResourceDoc that starts the fetches of every remaining
\* section before it awaits any of them
ComposeCombined_allAtOnce ==
    /\ pc = "compose"
    /\ IsPrompt
    /\ LET rest == {j \in secIdx..Len(sections) : sectionLinksAt(j) # <<>>}
       IN  IF rest = {}
           THEN /\ response' = Returned(PromptResult(req.params, completeDoc))
                /\ pc' = "done"
                /\ UNCHANGED <<secIdx, urls, frag, order>>
           ELSE /\ secIdx' = Len(sections)
                /\ IssueFetches(LinksOfSections(
                       SelectSeq([j \in 1..Len(sections) |-> j], LAMBDA j : j \in rest)))
                /\ UNCHANGED response
    /\ ret' = NoRet
    /\ UNCHANGED <<now, ticks, cache, req, version, schema, links, contents, completeDoc,
                   fetched, lastSet, fetches>>

\* getCombinedCompleteResourceDoc's loop: skip the empty sections, issue the
\* fetches of the next non-empty one, or return `completeDoc` to the handler
ComposeCombined ==
    /\ pc = "compose"
    /\ IsPrompt
    /\ LET rest == {j \in secIdx..Len(sections) : sectionLinksAt(j) # <<>>}
       IN  IF rest = {}
           THEN /\ response' = Returned(PromptResult(req.params, completeDoc))
                /\ pc' = "done"
                /\ UNCHANGED <<secIdx, urls, frag, order>>
           ELSE LET j == CHOOSE j \in rest : \A k \in rest : j <= k
                IN  /\ secIdx' = j
                    /\ IssueFetches(sectionLinksAt(j))
                    /\ UNCHANGED response
    /\ ret' = NoRet
    /\ UNCHANGED <<now, ticks, cache, req, version, schema, links, contents, completeDoc,
                   fetched, lastSet, fetches>>

\* a fetchMarkdownContent that stores whatever it returns, the placeholder too
FragmentSettle_cachesPlaceholder(i, outcome) ==
    /\ pc = "fetchMarkdownContent"
    /\ frag[i].st = "pending"
    /\ fetches < MaxFetches
    /\ fetches' = fetches + 1
    /\ LET r == fetchMarkdownContent_settle(urls[i], outcome)
       IN  /\ frag' = [frag EXCEPT ![i] = [st |-> IF outcome.t = "ok" THEN "ok" ELSE "failed",
                                           res |-> r, out |-> outcome]]
           /\ SetCache(urls[i], Str(r.val))
    /\ order' = Append(order, i)
    /\ ret' = NoRet
    /\ UNCHANGED <<now, ticks, pc, req, version, schema, links, secIdx, urls, contents,
                   completeDoc, response, fetched>>

\* a fetchMarkdownContent that fetches again when its fetch has failed
FragmentSettle_retries(i, outcome) ==
    /\ pc = "fetchMarkdownContent"
    /\ frag[i].st = "pending"
    /\ fetches < MaxFetches
    /\ fetches' = fetches + 1
    /\ LET r == fetchMarkdownContent_settle(urls[i], outcome)
       IN  IF outcome.t = "ok"
           THEN /\ frag' = [frag EXCEPT ![i] = [st |-> "ok", res |-> r, out |-> outcome]]
                /\ SetCache(urls[i], Str(r.val))
                /\ order' = Append(order, i)
           ELSE UNCHANGED <<frag, order, cache, lastSet>>
    /\ ret' = NoRet
    /\ UNCHANGED <<now, ticks, pc, req, version, schema, links, secIdx, urls, contents,
                   completeDoc, response, fetched>>

\* the fetch of fetchMarkdownContent(urls[i]) settles
FragmentSettle(i, outcome) ==
    /\ pc = "fetchMarkdownContent"
    /\ frag[i].st = "pending"
    /\ fetches < MaxFetches
    /\ fetches' = fetches + 1
    /\ LET r == fetchMarkdownContent_settle(urls[i], outcome)
       IN  /\ frag' = [frag EXCEPT ![i] = [st |-> IF outcome.t = "ok" THEN "ok" ELSE "failed",
                                           res |-> r, out |-> outcome]]
           /\ IF outcome.t = "ok"
              THEN SetCache(urls[i], Str(r.val))
              ELSE UNCHANGED <<cache, lastSet>>
    /\ order' = Append(order, i)
    /\ ret' = NoRet
    /\ UNCHANGED <<now, ticks, pc, req, version, schema, links, secIdx, urls, contents, completeDoc,
                   response, fetched>>

FetchMarkdownContentFetch ==
    \E i \in 1..Len(urls) : \E outcome \in FragOutcomes(urls[i]) : FragmentSettle(i, outcome)

Settled(i) == frag[i].st # "pending"
Rejected(i) == Settled(i) /\ frag[i].res.threw

\* an await that resumes with the results at hand once one promise has settled
AwaitAll_firstSettled ==
    /\ pc = "fetchMarkdownContent"
    /\ ret' = NoRet
    /\ \E i \in 1..Len(urls) : Settled(i)
    /\ LET done == SelectSeq([i \in 1..Len(urls) |-> i], Settled)
           results == [k \in 1..Len(done) |-> frag[done[k]].res.val]
       IN  IF IsComplete
           THEN /\ contents' = Append(contents,
                                      SectionItem(req.uri, sections[secIdx], results))
                /\ secIdx' = secIdx + 1
                /\ pc' = "compose"
                /\ UNCHANGED <<response, completeDoc>>
           ELSE IF IsPrompt
           THEN /\ completeDoc' = completeDoc
                                       \o CombinedSection(sections[secIdx], results)
                /\ secIdx' = secIdx + 1
                /\ pc' = "compose"
                /\ UNCHANGED <<response, contents>>
           ELSE /\ response' =
                       Returned(<< [uri |-> req.uri,
                                    text |-> CombinedMarkdown(
                                                 [k \in 1..Len(done) |-> urls[done[k]]],
                                                 results),
                                    mimeType |-> "text/markdown"] >>)
                /\ pc' = "done"
                /\ UNCHANGED <<secIdx, contents, completeDoc>>
    /\ UNCHANGED <<now, ticks, cache, req, version, schema, links, urls, frag, order,
                   fetched, lastSet, fetches>>

\* a handler that stores the combined markdown of a section under the
\* request's URI
AwaitAll_cachesDocument ==
    /\ pc = "fetchMarkdownContent"
    /\ ret' = NoRet
    /\ \A i \in 1..Len(urls) : Settled(i)
    /\ LET results == PromiseAll([i \in 1..Len(urls) |-> frag[i].res.val], order)
       IN  IF IsComplete
           THEN /\ contents' = Append(contents,
                                      SectionItem(req.uri, sections[secIdx], results))
                /\ secIdx' = secIdx + 1
                /\ pc' = "compose"
                /\ UNCHANGED <<response, completeDoc, cache>>
           ELSE IF IsPrompt
           THEN /\ completeDoc' = completeDoc
                                       \o CombinedSection(sections[secIdx], results)
                /\ secIdx' = secIdx + 1
                /\ pc' = "compose"
                /\ UNCHANGED <<response, contents, cache>>
           ELSE /\ response' =
                       Returned(<< [uri |-> req.uri,
                                    text |-> CombinedMarkdown(urls, results),
                                    mimeType |-> "text/markdown"] >>)
                /\ cache' = Cache_set(cache, req.uri, Str(CombinedMarkdown(urls, results)),
                                      now)
                /\ pc' = "done"
                /\ UNCHANGED <<secIdx, contents, completeDoc>>
    /\ UNCHANGED <<now, ticks, req, version, schema, links, urls, frag, order,
                   fetched, lastSet, fetches>>

\* an await that resumes only when every fragment holds fetched or cached text
AwaitAll_waitsForSuccess ==
    /\ pc = "fetchMarkdownContent"
    /\ \A i \in 1..Len(urls) : frag[i].st \in {"ok", "hit"}
    /\ ret' = NoRet
    /\ IF \E i \in 1..Len(urls) : Rejected(i)
       THEN LET first == CHOOSE k \in 1..Len(order) :
                            /\ Rejected(order[k])
                            /\ \A m \in 1..(k - 1) : ~Rejected(order[m])
                err == frag[order[first]].res
            IN  /\ response' =
                       IF IsComplete THEN ThrownFromComplete(err)
                       ELSE IF IsPrompt THEN Wrap(CouldNotGenerate, err)
                       ELSE McpError("InternalError",
                                     <<"Could not read resource: ">> \o req.uri
                                         \o <<" - ">> \o err.message)
                /\ pc' = "done"
                /\ UNCHANGED <<secIdx, contents, completeDoc>>
       ELSE /\ \A i \in 1..Len(urls) : Settled(i)
            /\ LET results == PromiseAll([i \in 1..Len(urls) |-> frag[i].res.val], order)
               IN  IF IsComplete
                   THEN /\ contents' = Append(contents,
                                              SectionItem(req.uri, sections[secIdx], results))
                        /\ secIdx' = secIdx + 1
                        /\ pc' = "compose"
                        /\ UNCHANGED <<response, completeDoc>>
                   ELSE IF IsPrompt
                   THEN /\ completeDoc' = completeDoc
                                               \o CombinedSection(sections[secIdx], results)
                        /\ secIdx' = secIdx + 1
                        /\ pc' = "compose"
                        /\ UNCHANGED <<response, contents>>
                   ELSE /\ response' =
                               Returned(<< [uri |-> req.uri,
                                            text |-> CombinedMarkdown(urls, results),
                                            mimeType |-> "text/markdown"] >>)
                        /\ pc' = "done"
                        /\ UNCHANGED <<secIdx, contents, completeDoc>>
    /\ UNCHANGED <<now, ticks, cache, req, version, schema, links, urls, frag, order,
                   fetched, lastSet, fetches>>

\* `await Promise.all(contentPromises)` resumes: all fulfilled, or one rejected
AwaitAll ==
    /\ pc = "fetchMarkdownContent"
    /\ ret' = NoRet
    /\ IF \E i \in 1..Len(urls) : Rejected(i)
       THEN LET first == CHOOSE k \in 1..Len(order) :
                            /\ Rejected(order[k])
                            /\ \A m \in 1..(k - 1) : ~Rejected(order[m])
                err == frag[order[first]].res
            IN  /\ response' =
                       IF IsComplete THEN ThrownFromComplete(err)
                       ELSE IF IsPrompt THEN Wrap(CouldNotGenerate, err)
                       ELSE McpError("InternalError",
                                     <<"Could not read resource: ">> \o req.uri
                                         \o <<" - ">> \o err.message)
                /\ pc' = "done"
                /\ UNCHANGED <<secIdx, contents, completeDoc>>
       ELSE /\ \A i \in 1..Len(urls) : Settled(i)
            /\ LET results == PromiseAll([i \in 1..Len(urls) |-> frag[i].res.val], order)
               IN  IF IsComplete
                   THEN /\ contents' = Append(contents,
                                              SectionItem(req.uri, sections[secIdx], results))
                        /\ secIdx' = secIdx + 1
                        /\ pc' = "compose"
                        /\ UNCHANGED <<response, completeDoc>>
                   ELSE IF IsPrompt
                   THEN /\ completeDoc' = completeDoc
                                               \o CombinedSection(sections[secIdx], results)
                        /\ secIdx' = secIdx + 1
                        /\ pc' = "compose"
                        /\ UNCHANGED <<response, contents>>
                   ELSE /\ response' =
                               Returned(<< [uri |-> req.uri,
                                            text |-> CombinedMarkdown(urls, results),
                                            mimeType |-> "text/markdown"] >>)
                        /\ pc' = "done"
                        /\ UNCHANGED <<secIdx, contents, completeDoc>>
    /\ UNCHANGED <<now, ticks, cache, req, version, schema, links, urls, frag, order,
                   fetched, lastSet, fetches>>

Next ==
    \/ Tick
    \/ ReadResource
    \/ CallGetSchemaForVersion
    \/ GetSchemaCached
    \/ GetSchemaFetch
    \/ GetSchemaForVersionCached
    \/ GetSchemaForVersionFetch
    \/ FetchLinksListCached
    \/ FetchLinksListFetch
    \/ ComposeSection
    \/ ComposeComplete
    \/ FetchMarkdownContentFetch
    \/ AwaitAll

Spec == Init /\ [][Next]_vars

\* a read of the pages of one section, and a read of the complete
\* specification
SectionUri == SpecUri(<<"draft">>, <<"/", "basic", "/", "index", ".md">>)

ReadSection == HandleRead(SectionUri)

\* the steps the event loop takes for the operation in progress: a remote
\* fetch settles, a continuation that is ready runs
Progress ==
    \/ GetSchemaCached
    \/ GetSchemaFetch
    \/ FetchLinksListCached
    \/ FetchLinksListFetch
    \/ ComposeSection
    \/ ComposeComplete
    \/ FetchMarkdownContentFetch
    \/ AwaitAll

NextRequests == Tick \/ ReadSection \/ ReadComplete \/ Progress

SpecRequests == Init /\ [][NextRequests]_vars

\* SpecRequests with an event loop that does not stop while a step is ready
FairSpec == SpecRequests /\ WF_vars(Progress)

\* a read of a versioned resource
ReadVersioned == \E uri \in VersionedReadUris : HandleRead(uri)

\* the versioned resources of the ReadResource handler
NextVersioned ==
    \/ Tick
    \/ ReadVersioned
    \/ GetSchemaForVersionCached
    \/ GetSchemaForVersionFetch
    \/ FetchLinksListCached
    \/ FetchLinksListFetch
    \/ ComposeSection
    \/ FetchMarkdownContentFetch
    \/ AwaitAll

SpecVersioned == Init /\ [][NextVersioned]_vars

\* the fetch of llms.txt settles at a site whose only page of VERSION is U1
NestedFetchLinksListFetch ==
    \E outcome \in NestedLinksOutcomes : FetchLinksListSettle(outcome)

\* the complete specification, as a resource and as the prompts' document
NextComplete ==
    \/ Tick
    \/ GetPrompt
    \/ ReadComplete
    \/ GetSchemaCached
    \/ GetSchemaFetch
    \/ FetchLinksListCached
    \/ NestedFetchLinksListFetch
    \/ ComposeComplete
    \/ ComposeCombined
    \/ FetchMarkdownContentFetch
    \/ AwaitAll

SpecComplete == Init /\ [][NextComplete]_vars

\* the section loop on its own, and within the complete compositions
NextSections == SectionLoop \/ NextComplete

SpecSections == Init /\ [][NextSections]_vars

\* --------------------------------------------------------- claims: Cache
\* C1: Cache.get(k) returns the stored value exactly when an entry for k
\* exists and is younger than 3,600,000 ms; otherwise it returns null; and it
\* never changes the map.
C1_GetFreshOrNull ==
    ret.op = "get" =>
        /\ cache = ret.pre
        /\ IF ret.key \in DOMAIN cache /\ now - cache[ret.key].timestamp < 3600000
           THEN ret.val = cache[ret.key].data
           ELSE ret.val = Null

\* a get that hit an entry one millisecond before its expiry
C1_Witness ==
    /\ ret.op = "get"
    /\ ret.key \in DOMAIN cache
    /\ now - cache[ret.key].timestamp = 3600000 - 1
    /\ ret.val = cache[ret.key].data
    /\ ret.val # Null

\* C2: once TTL has elapsed since the last set(k, v), get(k) returns null
\* while getExpired(k) still returns v.
C2_ExpiredGetNullStaleValue ==
    \A k \in DOMAIN lastSet :
        (ret.op \in {"get", "getExpired"} /\ ret.key = k /\ now - lastSet[k].at >= TTL)
            => ret.val = IF ret.op = "get" THEN Null ELSE lastSet[k].data

\* a getExpired that returned the value of an entry older than TTL
C2_Witness ==
    /\ ret.op = "getExpired"
    /\ ret.key \in DOMAIN lastSet
    /\ now - lastSet[ret.key].at >= TTL
    /\ ret.val = lastSet[ret.key].data
    /\ ret.val # Null

\* C3: set(k, v) followed by get(k) less than TTL later returns v, whatever
\* the entry of k was before.
C3_SetThenGet ==
    (ret.op = "get" /\ ret.key \in DOMAIN lastSet /\ now - lastSet[ret.key].at < TTL)
        => ret.val = lastSet[ret.key].data

\* a get of a key that was set twice, the second time after the first expired
C3_Witness ==
    /\ ret.op = "get"
    /\ ret.key \in DOMAIN lastSet
    /\ lastSet[ret.key].n = 2
    /\ lastSet[ret.key].at >= TTL
    /\ ret.val = lastSet[ret.key].data

\* ----------------------------------------------------- claims: fetch paths
\* the locators named by the provenance footers and by the error placeholders
\* of a composed text, in the order in which they appear
RECURSIVE Marks(_)
Marks(text) ==
    LET s == IndexOf(text, <<"\n\n---\n*Source: [">>, 0)
        e == IndexOf(text, <<"**Error:** Failed to load content from ">>, 0)
    IN  IF s = -1 /\ e = -1 THEN <<>>
        ELSE IF e = -1 \/ (s # -1 /\ s < e)
        THEN LET rest == Substring(text, s + 1)
                 close == IndexOf(rest, <<"](">>, 0)
             IN  <<[kind |-> "source", url |-> SubSeq(rest, 1, close)]>>
                     \o Marks(Substring(rest, close + 1))
        ELSE LET rest == Substring(text, e + 1)
                 close == IndexOf(rest, <<": ">>, 0)
             IN  <<[kind |-> "error", url |-> SubSeq(rest, 1, close)]>>
                     \o Marks(Substring(rest, close + 1))

Sources(text) == [i \in 1..Len(Marks(text)) |-> Marks(text)[i].url]

IsSectionRead == IsRead /\ req.branch.kind = "section"
SectionDone == IsSectionRead /\ pc = "done" /\ fetched.links \in {"hit", "ok"}
CompleteDone == IsComplete /\ pc = "done"

\* the key of the schema fetch of the operation in progress
SchemaKey == IF IsComplete THEN SCHEMA_URL ELSE getSchemaUrlForVersion(version)

\* C4: a schema fetch whose remote fetch failed returns the cached value,
\* however old, whenever the cache holds an entry for the schema key, and
\* fails with an InternalError when the key was never written.
C4_SchemaStaleFallback ==
    fetched.schema = "failed" =>
        IF SchemaKey \in DOMAIN cache
        THEN IF IsComplete
             THEN schema = cache[SchemaKey].data
             ELSE response = SchemaAnswer(cache[SchemaKey].data)
        ELSE pc = "done" /\ response.threw /\ response.code = "InternalError"

\* an entry of `key` that is older than TTL
HasExpired(key) == key \in DOMAIN cache /\ now - cache[key].timestamp >= TTL

\* C5: on the schema, links-list and fragment paths alike, a fetch that fails
\* returns the expired entry of its key when there is one.
C5_StaleBeforeErrorEverywhere ==
    [][ /\ (fetched.schema # "failed" /\ fetched'.schema = "failed" /\ HasExpired(SchemaKey))
            => (IF IsComplete THEN schema' = cache[SchemaKey].data
                ELSE response' = SchemaAnswer(cache[SchemaKey].data))
        /\ (fetched.links # "failed" /\ fetched'.links = "failed" /\ HasExpired(LinksKey))
            => (links' = cache[LinksKey].data.v /\ pc' = "compose")
        /\ \A i \in DOMAIN frag :
               (pc' = "fetchMarkdownContent" /\ frag[i].st = "pending"
                    /\ i \in DOMAIN frag' /\ frag'[i].st = "failed"
                    /\ HasExpired(urls[i]))
                => frag'[i].res = Returned(cache[urls[i]].data.v)
      ]_vars

\* C6: the composed text names the locators in the order of the input list,
\* whatever the order in which their fetches settled.
C6_InputOrderPreserved ==
    /\ (SectionDone /\ ~response.threw) => Sources(response.val[1].text) = urls
    /\ (IsComplete /\ pc = "compose" /\ Len(contents) > 1)
            => Sources(contents[Len(contents)].text) = urls

\* a section read of two different locators whose second fetch settled first
C6_Witness ==
    /\ SectionDone
    /\ Len(urls) = 2
    /\ urls[1] # urls[2]
    /\ order = <<2, 1>>
    /\ ~response.threw
    /\ Sources(response.val[1].text) = urls

C8_OnlySchemaIsFatal ==
    CompleteDone =>
        /\ (fetched.schema = "failed" /\ SCHEMA_URL \notin DOMAIN cache)
                => (response.threw /\ response.code = "InternalError")
        /\ fetched.links \in {"hit", "ok"} => ~response.threw

\* a complete composition that returned a document holding an error placeholder
C8_Witness ==
    /\ CompleteDone
    /\ ~response.threw
    /\ \E k \in 2..Len(response.val) :
           \E m \in 1..Len(Marks(response.val[k].text)) :
               Marks(response.val[k].text)[m].kind = "error"

\* C9: reading .../specification/{v}/index.md for a supported v composes
\* version v: the schema block is the schema of v and every locator composed
\* embeds v or no version at all.
C9_CompleteSpecOfRequestedVersion ==
    (CompleteDone /\ ~response.threw
        /\ ArrIncludes(SUPPORTED_VERSIONS, SpecVersionMatch(req.uri)))
    => LET v == SpecVersionMatch(req.uri)
       IN  /\ response.val[1].text
                  \in {Stringify(JsonObj(v, r)) : r \in SchemaRevs} \cup {Stringify(JsonFalse)}
           /\ \A k \in 2..Len(response.val) :
                  \A m \in 1..Len(Marks(response.val[k].text)) :
                      LET u == Marks(response.val[k].text)[m].url
                      IN  Includes(u, Slash \o v \o Slash) \/ ~MatchesVersionSegment(u)

\* C10: getSchemaForVersion(v) accepts the supported versions and rejects
\* every other v with an InvalidParams error that lists the supported versions.
C10_StrictVersionValidation ==
    (req.kind = "call" /\ pc = "done") =>
        IF ArrIncludes(SUPPORTED_VERSIONS, req.arg)
        THEN ~(response.threw /\ response.code = "InvalidParams")
        ELSE /\ response.threw
             /\ response.code = "InvalidParams"
             /\ Includes(response.message, JoinWith(SUPPORTED_VERSIONS, <<", ">>))

\* ------------------------------------------- claims: extractVersionFromUri
\* the path segment that immediately follows the first '/specification/' of
\* the uri, <<>> if there is none
SegmentAfterSpecification(uri) ==
    LET i == IndexOf(uri, <<"/", "specification", "/">>, 0)
    IN  IF i = -1 THEN <<>>
        ELSE LET rest == Substring(uri, i + 3)
                 j == IndexOf(rest, Slash, 0)
             IN  IF j = -1 THEN rest ELSE SubSeq(rest, 1, j)

IsExtract == ret.op = "extractVersionFromUri"

\* C11: extractVersionFromUri throws McpError(InvalidParams), with the
\* supported versions joined by ', ' in its message, for every URI whose
\* segment after '/specification/' is not a supported version, and returns a
\* version for every other URI.
C11_ExtractRejectsUnsupported ==
    IsExtract =>
        LET seg == SegmentAfterSpecification(ret.uri)
        IN  IF seg # <<>> /\ ~ArrIncludes(SUPPORTED_VERSIONS, seg)
            THEN /\ ret.res.threw
                 /\ ret.res.code = "InvalidParams"
                 /\ Includes(ret.res.message, JoinWith(SUPPORTED_VERSIONS, <<", ">>))
            ELSE ~ret.res.threw

ClosedSegmentAfterSpecification(uri) ==
    LET places == {k \in 1..(Len(uri) - 4) :
                      /\ uri[k] = "/"
                      /\ uri[k + 1] = "specification"
                      /\ uri[k + 2] = "/"
                      /\ uri[k + 3] # "/"
                      /\ \E m \in (k + 4)..Len(uri) : uri[m] = "/"}
    IN  IF places = {} THEN <<>>
        ELSE LET k == CHOOSE k \in places : \A j \in places : k <= j
                 rest == SubSeq(uri, k + 3, Len(uri))
             IN  SubSeq(rest, 1, IndexOf(rest, Slash, 0))

IsFilter == ret.op = "filterUrlsBySection"

\* the elements of a list
Range(seq) == {seq[i] : i \in 1..Len(seq)}

\* the recognizable version segments a locator embeds
EmbeddedVersions(url) ==
    {url[i + 1] : i \in {j \in 1..(Len(url) - 2) :
                             /\ url[j] = "/"
                             /\ url[j + 2] = "/"
                             /\ url[j + 1] \in DateTokens \cup {"draft"}}}

BasicSection == <<"/", "basic", "/">>

\* C13 as claimed: a locator that embeds a version segment other than the
\* requested one is dropped; under the section '/basic/' a locator holding
\* '/basic/' is kept if it embeds no version segment or only the requested one.
C13_VersionScoping ==
    IsFilter =>
        \A u \in Range(ret.links) :
            /\ (\E w \in EmbeddedVersions(u) : <<w>> # ret.version) => u \notin Range(ret.val)
            /\ (ret.section = BasicSection /\ Includes(u, BasicSection)
                    /\ EmbeddedVersions(u) \subseteq {ret.version[1]})
                => u \in Range(ret.val)

\* C13 as amended: a locator is dropped if it embeds version segments and
\* none of them is the requested one; under the section '/basic/' a locator
\* holding '/basic/' is kept if it embeds no version segment or embeds the
\* requested one, beside another or not.
C13_VersionScopingByRequestedSegment ==
    IsFilter =>
        \A u \in Range(ret.links) :
            /\ (EmbeddedVersions(u) # {} /\ ret.version[1] \notin EmbeddedVersions(u))
                => u \notin Range(ret.val)
            /\ (ret.section = BasicSection /\ Includes(u, BasicSection)
                    /\ (EmbeddedVersions(u) = {} \/ ret.version[1] \in EmbeddedVersions(u)))
                => u \in Range(ret.val)

\* the link of another version dropped, the link of two versions kept
C13_Witness ==
    /\ IsFilter
    /\ ret.section = BasicSection
    /\ ret.version = <<"2025-03-26">>
    /\ ret.links = <<Old24, TwoVersions>>
    /\ ret.val = <<TwoVersions>>

\* C14: whichever matching rule the section selects, a call with the default
\* version never returns a locator whose only version segment is '/draft/'.
C14_ScopingBeforeEveryRule ==
    (IsFilter /\ ret.version = VERSION) =>
        \A u \in Range(ret.val) : EmbeddedVersions(u) # {"draft"}

\* a draft locator whose final segment matches the regular expression, dropped
C14_Witness ==
    /\ IsFilter
    /\ ret.version = VERSION
    /\ ret.section = TopLevelMdPattern
    /\ ret.links = <<testDraftUrl, D1>>
    /\ RegExpTest(ret.section, <<"index", ".md">>)
    /\ ret.val = <<D1>>

\* C15: filtering the result of a call again, with the same section and
\* version, returns that result unchanged.
C15_FilterIdempotent == IsFilter => ret.again = ret.val

\* a call that dropped a link and kept one, filtered again
C15_Witness ==
    /\ IsFilter
    /\ ret.section = BasicSection
    /\ ret.links = <<Old24, New25>>
    /\ ret.val = <<New25>>
    /\ ret.again = <<New25>>

\* a is b with some elements left out
RECURSIVE IsSubsequence(_, _)
IsSubsequence(a, b) ==
    IF a = <<>> THEN TRUE
    ELSE IF b = <<>> THEN FALSE
    ELSE IF Head(a) = Head(b) THEN IsSubsequence(Tail(a), Tail(b))
    ELSE IsSubsequence(a, Tail(b))

\* C16: the result is a subsequence of the input: elements of the input
\* only, in their input order, none more often than in the input.
C16_ResultIsSubsequence == IsFilter => IsSubsequence(ret.val, ret.links)

\* two different links kept in their input order
C16_Witness ==
    /\ IsFilter
    /\ ret.links = <<NoVersion, New25>>
    /\ ret.val = <<NoVersion, New25>>

\* a locator that passes the first filter: not empty, not the sentinel, and
\* without version segment or with the requested one
Scoped(u, v) ==
    /\ u # <<>>
    /\ u # <<"MCP">>
    /\ (EmbeddedVersions(u) = {} \/ v[1] \in EmbeddedVersions(u))

\* the tokens after the last "/" of a locator
LastSegment(u) ==
    LET at == {i \in 1..Len(u) : u[i] = "/"}
    IN  IF at = {} THEN u
        ELSE SubSeq(u, (CHOOSE i \in at : \A j \in at : j <= i) + 1, Len(u))

SlashCount(u) == Cardinality({i \in 1..Len(u) : u[i] = "/"})

\* the one rule a section selects, by precedence
RuleOf(section) ==
    IF section # <<>> /\ Head(section) = "^" THEN "regex"
    ELSE IF section = <<"github.com", "/", "modelcontextprotocol", "/">> THEN "namespace"
    ELSE IF section = <<"/", "docs", "/">> THEN "shallow"
    ELSE "literal"

Keeps(rule, section, u) ==
    CASE rule = "regex" -> RegExpTest(section, LastSegment(u))
      [] rule = "namespace" ->
            /\ Len(u) >= 7
            /\ SubSeq(u, 1, 7) = <<"https:", "/", "/", "github.com", "/",
                                   "modelcontextprotocol", "/">>
      [] rule = "shallow" -> SlashCount(u) = 3 /\ u[Len(u)] = ".md"
      [] OTHER -> \E i \in 0..(Len(u) - Len(section)) :
                      SubSeq(u, i + 1, i + Len(section)) = section

\* C17: the links that pass the first filter are kept or dropped by exactly
\* the rule the section selects by precedence: regex, namespace prefix,
\* shallow doc, else literal substring.
C17_OneRuleByPrecedence ==
    IsFilter =>
        \A u \in Range(ret.links) :
            Scoped(u, ret.version) =>
                (u \in Range(ret.val) <=> Keeps(RuleOf(ret.section), ret.section, u))

\* the section '/docs/' kept the top-level page and dropped the page that
\* holds '/docs/': the shallow-doc rule was applied and the literal one was not
C17_Witness ==
    /\ IsFilter
    /\ ret.section = DocsSection
    /\ ret.links = <<NestedDoc, D1>>
    /\ Keeps("literal", ret.section, NestedDoc)
    /\ ~Keeps("literal", ret.section, D1)
    /\ ret.val = <<D1>>

\* C18: under a section that begins with '^', a link that passes the first
\* filter is kept iff the regular expression matches its final segment;
\* a match in an earlier segment does not keep it.
C18_RegexOnFinalSegment ==
    (IsFilter /\ ret.section # <<>> /\ Head(ret.section) = "^") =>
        \A u \in Range(ret.links) :
            Scoped(u, ret.version) =>
                (u \in Range(ret.val) <=> RegExpTest(ret.section, LastSegment(u)))

\* a link whose earlier segment matches the pattern, dropped
C18_Witness ==
    /\ IsFilter
    /\ ret.section = TopLevelMdPattern
    /\ ret.links = <<UnderMd, D1>>
    /\ RegExpTest(ret.section, <<"introduction", ".md">>)
    /\ ret.val = <<D1>>

\* C19: under the section '/docs/', a link that passes the first filter is
\* kept iff it splits on '/' into exactly four parts and its final segment
\* ends in '.md'; nested documentation links are dropped.
C19_ShallowDocs ==
    (IsFilter /\ ret.section = <<"/", "docs", "/">>) =>
        \A u \in Range(ret.links) :
            Scoped(u, ret.version) =>
                (u \in Range(ret.val) <=> (SlashCount(u) = 3 /\ u[Len(u)] = ".md"))

\* a nested documentation page dropped, a top-level page kept
C19_Witness ==
    /\ IsFilter
    /\ ret.section = <<"/", "docs", "/">>
    /\ ret.links = <<D1, NestedDoc>>
    /\ SlashCount(NestedDoc) = 5
    /\ ret.val = <<D1>>

\* C20: no result holds 'MCP' or an empty entry, whatever the section and
\* the version.
C20_NoSentinelNoEmpty ==
    IsFilter => \A u \in Range(ret.val) : u # <<"MCP">> /\ u # <<>>

\* 'MCP' and '' handed in under a regular expression that matches 'MCP'
C20_Witness ==
    /\ IsFilter
    /\ ret.section = <<"^", "MCP", "$">>
    /\ RegExpTest(ret.section, <<"MCP">>)
    /\ ret.links = << <<"MCP">>, <<>> >>
    /\ ret.val = <<>>

\* ------------------------------------------- claims: complete composition
\* the positions in `sections` of the sections whose filter result is not empty
NonEmptySections ==
    SelectSeq([j \in 1..Len(sections) |-> j], LAMBDA j : sectionLinksAt(j) # <<>>)

\* number of occurrences of the token `tok` in `text`
Count(text, tok) == Cardinality({i \in 1..Len(text) : text[i] = tok})

PromptDone == IsPrompt /\ pc = "done" /\ ~response.threw
ResourceDone == CompleteDone /\ ~response.threw

\* the combined document of a finished prompt
PromptDoc == response.val.messages[2].content.resource.text

\* C21: in the resource form and in the combined form of the complete
\* composition, a section whose filter result is empty contributes no item, no
\* heading and no placeholder, and no fetch is issued for it.
C21_EmptySectionsOmitted ==
    /\ ((IsComplete \/ IsPrompt) /\ pc = "fetchMarkdownContent")
            => (urls # <<>> /\ urls = sectionLinksAt(secIdx))
    /\ ResourceDone =>
        /\ Len(response.val) = 1 + Len(NonEmptySections)
        /\ \A k \in 1..Len(NonEmptySections) :
               /\ response.val[k + 1].uri
                      = req.uri \o <<"#">> \o sections[NonEmptySections[k]]
               /\ Count(response.val[k + 1].text, "# ") = 1
               /\ Sources(response.val[k + 1].text) = sectionLinksAt(NonEmptySections[k])
    /\ PromptDone =>
        /\ Count(PromptDoc, "\n\n## ") = Len(NonEmptySections)
        /\ Sources(PromptDoc) = LinksOfSections(NonEmptySections)

\* a prompt answered with a document of some sections while others are empty
C21_Witness ==
    /\ PromptDone
    /\ Len(NonEmptySections) \in 1..(Len(sections) - 1)
    /\ Count(PromptDoc, "\n\n## ") = Len(NonEmptySections)

\* the texts a schema block can hold
SchemaBlocks == {Stringify(JsonObj(VERSION, r)) : r \in SchemaRevs} \cup {Stringify(JsonFalse)}

\* the headings of the non-empty sections, in the order of `sections`
SectionTitles == [k \in 1..Len(NonEmptySections) |->
                     Head(UpperFirst(Pop(SplitSlash(sections[NonEmptySections[k]]))))]

\* the tokens that follow the heading marks `mark` in `text`, in order
RECURSIVE Headings(_, _)
Headings(text, mark) ==
    IF text = <<>> THEN <<>>
    ELSE IF Head(text) = mark /\ Len(text) > 1
    THEN <<text[2]>> \o Headings(Tail(Tail(text)), mark)
    ELSE Headings(Tail(text), mark)

\* C22: every successful complete composition, in the resource form and in
\* the combined form of the prompts, begins with the schema block, which is
\* followed by the non-empty sections in the order architecture, basic,
\* basic/utilities, client, server, server/utilities.
C22_SchemaBlockThenSections ==
    /\ ResourceDone =>
        /\ response.val[1].text \in SchemaBlocks
        /\ [k \in 1..(Len(response.val) - 1) |-> response.val[k + 1].text[2]]
               = SectionTitles
    /\ PromptDone =>
        /\ \E b \in SchemaBlocks :
               /\ Includes(PromptDoc, b)
               /\ IndexOf(PromptDoc, b, 0) < IndexOf(PromptDoc, <<"\n\n## ">>, 0)
        /\ Headings(PromptDoc, "\n\n## ") = SectionTitles

\* ------------------------------------------------ claims: cache discipline
\* C23: a call of fetchMarkdownContent(url) issues a remote request exactly
\* when Cache.get(url) is absent at the time of the call; a successful fetch at
\* time t stores the processed text under url with timestamp t; and a call
\* started while that entry is younger than TTL returns the stored text and
\* never issues a remote request.
C23_FragmentThroughCache ==
    [][ /\ (pc = "compose" /\ pc' = "fetchMarkdownContent") =>
            \A i \in 1..Len(urls') :
                IF urls'[i] \in DOMAIN cache /\ now - cache[urls'[i]].timestamp < TTL
                THEN frag'[i] = [st |-> "hit", res |-> Returned(cache[urls'[i]].data.v)]
                ELSE frag'[i] = [st |-> "pending"]
        /\ (pc = "fetchMarkdownContent" /\ pc' = "fetchMarkdownContent") =>
            \A i \in 1..Len(urls) :
                /\ frag[i].st = "hit" => frag'[i] = frag[i]
                /\ (frag[i].st = "pending" /\ frag'[i].st = "ok") =>
                      /\ frag'[i].res = Returned(ProcessMarkdown(frag'[i].out.body, urls[i]))
                      /\ cache'[urls[i]] = CacheEntry(Str(frag'[i].res.val), now)
      ]_vars

\* a fragment returned from an entry in the last millisecond before its expiry
C23_Witness ==
    /\ pc = "fetchMarkdownContent"
    /\ \E i \in 1..Len(urls) :
           /\ frag[i].st = "hit"
           /\ now - cache[urls[i]].timestamp = TTL - 1
           /\ frag[i].res.val = cache[urls[i]].data.v

\* two calls of fetchMarkdownContent for one key are in flight together
Overlapping(i, j) == i # j /\ urls[i] = urls[j]

\* C24: writes of one key are last-write-wins: two overlapping calls that both
\* miss the key both issue their remote request, and once both have succeeded
\* the entry of the key holds the value and the timestamp of the Cache.set
\* that ran last.
C24_LastWriteWins ==
    [][ /\ (pc = "compose" /\ pc' = "fetchMarkdownContent") =>
            \A i, j \in 1..Len(urls') :
                (urls'[i] = urls'[j] /\ Cache_get(cache, urls'[i], now) = Null)
                    => (frag'[i].st = "pending" /\ frag'[j].st = "pending")
        /\ (pc = "fetchMarkdownContent" /\ pc' = "fetchMarkdownContent") =>
            \A i, j \in 1..Len(urls) :
                (Overlapping(i, j) /\ frag[j].st = "ok"
                     /\ frag[i].st = "pending" /\ frag'[i].st = "ok")
                    => /\ cache'[urls[i]].data = Str(frag'[i].res.val)
                       /\ cache'[urls[i]].timestamp = now
        /\ pc = "fetchMarkdownContent" =>
            \A i, j \in 1..Len(urls) :
                (Overlapping(i, j) /\ frag[i].st = "ok" /\ frag[j].st = "ok"
                     /\ order[Len(order)] = i)
                    => cache[urls[i]].data = Str(frag[i].res.val)
      ]_vars

\* two overlapping fetches of one locator succeeded with different texts, the
\* first position settling last and later than the links list was stored
C24_Witness ==
    /\ pc = "fetchMarkdownContent"
    /\ Len(urls) = 2
    /\ Overlapping(1, 2)
    /\ frag[1].st = "ok" /\ frag[2].st = "ok"
    /\ order = <<2, 1>>
    /\ frag[1].res # frag[2].res
    /\ cache[urls[1]] = CacheEntry(Str(frag[1].res.val), now)
    /\ now > cache[LinksKey].timestamp

\* ----------------------------------------------------- claims: scheduling
\* C25: the response of a section composition is built only after every
\* fragment fetch of the section has settled: a composed text holds one
\* fragment or placeholder for every locator of the section, never a part of
\* them.
C25_FanInBarrier ==
    /\ SectionDone =>
        /\ \A i \in 1..Len(urls) : Settled(i)
        /\ ~response.threw => Len(Marks(response.val[1].text)) = Len(urls)
    /\ (IsComplete /\ pc = "compose" /\ Len(contents) > 1) =>
        /\ \A i \in 1..Len(urls) : Settled(i)
        /\ Len(Marks(contents[Len(contents)].text)) = Len(urls)

\* a section read answered after two fetches that were in flight together
C25_Witness ==
    /\ SectionDone
    /\ ~response.threw
    /\ Len(urls) = 2
    /\ Len(order) = 2
    /\ \A i \in 1..2 : frag[i].st \in {"ok", "failed"}
    /\ Len(Marks(response.val[1].text)) = 2

\* number of non-empty sections before position j of `sections`
NonEmptyBefore(j) == Cardinality({k \in 1..(j - 1) : sectionLinksAt(k) # <<>>})

\* C26: the complete composition takes the sections one after another, in
\* the resource form and in the combined form: the fetches of a section are
\* issued only when every fetch of the sections before it has settled and
\* their text has been added, and they are the fetches of that section alone.
C26_SectionsSequential ==
    [][ ((IsComplete \/ IsPrompt) /\ pc = "compose" /\ pc' = "fetchMarkdownContent") =>
            /\ \A i \in 1..Len(urls) : Settled(i)
            /\ secIdx' >= secIdx
            /\ urls' = sectionLinksAt(secIdx')
            /\ IF IsComplete
               THEN Len(contents) = 1 + NonEmptyBefore(secIdx')
               ELSE Count(completeDoc, "\n\n## ") = NonEmptyBefore(secIdx')
      ]_vars

\* the fetch of the second non-empty section is in flight after the first
\* section, whose fetch failed, has been added to the combined document
C26_Witness ==
    /\ IsPrompt
    /\ pc = "fetchMarkdownContent"
    /\ NonEmptyBefore(secIdx) = 1
    /\ Count(completeDoc, "\n\n## ") = 1
    /\ Len(Marks(completeDoc)) = 1
    /\ frag[1].st = "pending"

\* C27: the cache never removes a key: an entry stays as it is until a
\* Cache.set of its key replaces it, whatever its age, and getExpired returns
\* nothing only for a key that was never written.
C27_NoEviction ==
    [][ /\ DOMAIN cache \subseteq DOMAIN cache'
        /\ \A k \in DOMAIN cache :
               cache'[k] # cache[k] => (ret'.op = "set" /\ ret'.key = k)
        /\ ret'.op = "getExpired" =>
               /\ (ret'.val = Null) <=> (ret'.key \notin DOMAIN lastSet)
               /\ ret'.key \in DOMAIN lastSet => ret'.val = lastSet[ret'.key].data
      ]_vars

\* getExpired returned nothing for a key never written while the map still
\* holds an entry older than TTL, which get no longer returns and getExpired does
C27_Witness ==
    /\ ret.op = "getExpired"
    /\ DOMAIN cache # DirectKeys
    /\ \E k \in DOMAIN cache :
           /\ now - cache[k].timestamp >= TTL
           /\ Cache_get(cache, k, now) = Null
           /\ Cache_getExpired(cache, k) = lastSet[k].data
    /\ ret.key \notin DOMAIN cache
    /\ ret.val = Null

\* C28: Cache.set(k, v) replaces whatever entry k has with (v, now), stores
\* v as it is, and leaves the entries of all other keys as they were.
C28_SetReplacesOneKey ==
    ret.op = "set" =>
        /\ DOMAIN cache = DOMAIN ret.pre \cup {ret.key}
        /\ cache[ret.key].data = ret.arg
        /\ cache[ret.key].timestamp = now
        /\ \A k \in DOMAIN ret.pre : k # ret.key => cache[k] = ret.pre[k]

\* a set that replaced an older entry holding another value while the other
\* key had an entry
C28_Witness ==
    /\ ret.op = "set"
    /\ ret.key \in DOMAIN ret.pre
    /\ ret.pre[ret.key].data # ret.arg
    /\ ret.pre[ret.key].timestamp < now
    /\ cache[ret.key] = CacheEntry(ret.arg, now)
    /\ \E k \in DOMAIN ret.pre : k # ret.key /\ cache[k] = ret.pre[k]

\* C29: Cache.getExpired is consulted only after the live fetch of the same
\* key has failed in the same operation: never where the fetch succeeded,
\* where a fresh entry was found, or for the links list and the fragments.
C29_ExpiredOnlyAfterFailure ==
    /\ fetched.expired # <<>> =>
           /\ fetched.schema = "failed"
           /\ fetched.expired = <<SchemaKey>>
           /\ req.kind \in {"read", "call"}
    /\ fetched.schema \in {"none", "hit", "ok"} => fetched.expired = <<>>
    /\ (fetched.schema = "failed" /\ pc # "done") => schema = Cache_getExpired(cache, SCHEMA_URL)

\* a schema read whose fetch failed after the entry had expired, answered from
\* the expired entry
C29_Witness ==
    /\ pc = "done"
    /\ fetched.schema = "failed"
    /\ fetched.expired = <<SchemaKey>>
    /\ HasExpired(SchemaKey)
    /\ ~response.threw
    /\ response = SchemaAnswer(Cache_getExpired(cache, SchemaKey))

\* C30: there are no retries: an invocation of getSchema, getSchemaForVersion,
\* fetchLinksList or fetchMarkdownContent issues at most one remote request,
\* and a failed request ends the invocation (with the stale entry, an error or
\* a placeholder) without a second request.
C30_NoRetries ==
    [][ /\ fetches' \in {fetches, fetches + 1}
        /\ fetches' = fetches + 1 =>
              \/ /\ pc = "getSchema_fetch"
                 /\ pc' \in {"fetchLinksList", "done"}
                 /\ fetched.schema = "none" /\ fetched'.schema \in {"ok", "failed"}
              \/ /\ pc = "getSchemaForVersion_fetch"
                 /\ pc' = "done"
                 /\ fetched.schema = "none" /\ fetched'.schema \in {"ok", "failed"}
              \/ /\ pc = "fetchLinksList_fetch"
                 /\ pc' \in {"compose", "done"}
                 /\ fetched.links = "none" /\ fetched'.links \in {"ok", "failed"}
              \/ /\ pc = "fetchMarkdownContent" /\ pc' = "fetchMarkdownContent"
                 /\ \E i \in 1..Len(urls) :
                        /\ frag[i].st = "pending"
                        /\ frag'[i].st \in {"ok", "failed"}
                        /\ \A j \in 1..Len(urls) : j # i => frag'[j] = frag[j]
        /\ (pc = "fetchMarkdownContent" /\ pc' = "fetchMarkdownContent") =>
              \A i \in 1..Len(urls) : frag[i].st # "pending" => frag'[i] = frag[i]
        /\ (fetched.schema # "none" /\ fetched'.schema = fetched.schema) =>
              pc' \notin {"getSchema", "getSchema_fetch", "getSchemaForVersion",
                          "getSchemaForVersion_fetch"}
        /\ (fetched.links # "none" /\ fetched'.links = fetched.links) =>
              pc' \notin {"fetchLinksList", "fetchLinksList_fetch"}
      ]_vars

\* a section read that ended with an error after its only remote request, the
\* fetch of the links list, had failed
C30_Witness ==
    /\ IsSectionRead
    /\ pc = "done"
    /\ fetched.links = "failed"
    /\ response.threw
    /\ fetches = 1

\* ------------------------------------------------------ claims: dispatch
\* a read of a URI that no branch of the handler recognises
IsUnknownRead == IsRead /\ Dispatch(req.uri).kind = "unknown"

\* C31: a read of a URI that matches none of the resources fails at once with
\* MethodNotFound "Unknown resource: <uri>": it issues no remote fetch, leaves
\* the cache as it was and tries nothing again.
C31_UnknownResourceFailsAtOnce ==
    [][ /\ (req' # req /\ req'.kind = "read" /\ Dispatch(req'.uri).kind = "unknown") =>
              /\ pc' = "done"
              /\ response' = McpError("MethodNotFound", <<"Unknown resource: ">> \o req'.uri)
              /\ cache' = cache
              /\ fetches' = fetches
              /\ fetched' = NotFetched
        /\ IsUnknownRead =>
              /\ pc = "done"
              /\ urls = <<>> /\ frag = <<>>
              /\ cache' = cache
              /\ fetches' = fetches
      ]_vars

\* an unknown resource was refused while the cache held entries
C31_Witness ==
    /\ IsUnknownRead
    /\ pc = "done"
    /\ response.threw
    /\ response.code = "MethodNotFound"
    /\ fetched = NotFetched
    /\ LinksKey \in DOMAIN cache

\* -------------------------------------------------- claims: cache contents
\* the locators listed by llms.txt
ListedLinks == UNION {Range(ParseLinks(b)) : b \in LlmsBodies \cup NestedLlmsBodies}

\* a key made by getSchemaUrlForVersion
IsSchemaUrl(k) ==
    /\ StartsWith(k, SchemaUrlPrefix)
    /\ EndsWith(k, <<"/", "schema", ".json">>)

\* C32: composed documents are never cached as a whole: every key of the
\* cache is the links-list key, a schema URL or the locator of one fragment
\* (whose entry holds that one fragment's text), and a section's document is
\* put together from the results of its fragments at every request.
C32_OnlyPartsAreCached ==
    /\ \A k \in DOMAIN cache :
           \/ k = LinksKey /\ cache[k].data.t = "arr"
           \/ IsSchemaUrl(k) /\ cache[k].data.t \in {"obj", "bool"}
           \/ /\ k \in ListedLinks
              /\ cache[k].data.t = "str"
              /\ Marks(cache[k].data.v) = <<[kind |-> "source", url |-> k]>>
    /\ (SectionDone /\ ~response.threw) =>
           response.val[1].text
               = CombinedMarkdown(urls, [i \in 1..Len(urls) |-> frag[i].res.val])

\* a section of two fragments was answered a second time, from the two
\* entries of its fragments
C32_Witness ==
    /\ SectionDone
    /\ ~response.threw
    /\ Len(urls) = 2
    /\ urls[1] # urls[2]
    /\ \A i \in 1..2 : frag[i].st = "hit" /\ urls[i] \in DOMAIN cache
    /\ Len(Marks(response.val[1].text)) = 2

\* ------------------------------------------------- claims: configuration
\* C33: the default version is the value of the environment variable
\* DEFAULT_SPEC_VERSION when it is set, for the static resources and for the
\* filtering, and 2025-03-26 only when it is not set.
C33_DefaultVersionFromEnvironment ==
    ret.op = "load" =>
        LET default == IF ret.env = Null THEN <<"2025-03-26">> ELSE ret.env.v
        IN  /\ ret.VERSION = default
            /\ ret.completeSpecUri = SpecUri(default, <<"/", "index", ".md">>)
            /\ \A i \in 1..Len(ret.sectionLinks) :
                   Includes(ret.sectionLinks[i], Slash \o default \o Slash)

\* ------------------------------------------------- claims: fragment text
\* the positions (from 1) of the body of the last call at which '---' begins,
\* not counting the marker at the very start
SecondMarkers ==
    {i \in 4..(Len(ret.body) - 2) : SubSeq(ret.body, i, i + 2) = <<"-", "-", "-">>}

HasFrontMatter ==
    /\ Len(ret.body) >= 3
    /\ SubSeq(ret.body, 1, 3) = <<"-", "-", "-">>
    /\ SecondMarkers # {}

\* what follows the first of the second markers
AfterFrontMatter ==
    LET m == CHOOSE i \in SecondMarkers : \A j \in SecondMarkers : i <= j
    IN  SubSeq(ret.body, m + 3, Len(ret.body))

\* `s` without the white space at its two ends
Trimmed(s) ==
    LET inked == {i \in 1..Len(s) : s[i] # " "}
    IN  IF inked = {} THEN <<>>
        ELSE SubSeq(s, CHOOSE i \in inked : \A j \in inked : i <= j,
                       CHOOSE i \in inked : \A j \in inked : i >= j)

Footer(url) == <<"\n\n---\n*Source: [">> \o url \o <<"](">> \o url \o <<")*\n">>

\* C34: on a successful fetch, a body that starts with '---' and has a second
\* '---' at position 3 or later loses everything up to and including that
\* second marker and is trimmed; any other body is kept as it is; the footer
\* naming the locator is appended, and the text so processed is what
\* fetchMarkdownContent returns and stores under the locator.
C34_FrontMatterAndFooter ==
    ret.op = "fetchMarkdownContent" =>
        LET text == IF HasFrontMatter THEN Trimmed(AfterFrontMatter) ELSE ret.body
        IN  /\ ret.res = Returned(text \o Footer(ret.url))
            /\ cache[ret.url] = CacheEntry(Str(text \o Footer(ret.url)), now)

\* a body whose front matter was removed and whose remaining text was trimmed
C34_Witness ==
    /\ ret.op = "fetchMarkdownContent"
    /\ HasFrontMatter
    /\ Trimmed(AfterFrontMatter) # <<>>
    /\ Trimmed(AfterFrontMatter) # AfterFrontMatter
    /\ ret.res.val = Trimmed(AfterFrontMatter) \o Footer(ret.url)

\* the text of a cache entry holds an error placeholder
HoldsPlaceholder(c, k) ==
    /\ c[k].data.t = "str"
    /\ Includes(c[k].data.v, <<"**Error:** Failed to load content from ">>)

\* C35: a failed fetch of a fragment or of the links list leaves the cache as
\* it was: no placeholder is ever stored and the entry of the locator is
\* neither removed nor refreshed; so the next call for a locator without an
\* entry fetches again, and its success puts the real text where the
\* placeholder was.
C35_FailureLeavesCache ==
    [][ /\ (pc = "fetchMarkdownContent" /\ pc' = "fetchMarkdownContent") =>
               \A i \in 1..Len(urls) :
                   (frag[i].st = "pending" /\ frag'[i].st = "failed") => cache' = cache
        /\ (fetched.links = "none" /\ fetched'.links = "failed") => cache' = cache
        /\ \A k \in DOMAIN cache' : ~HoldsPlaceholder(cache', k)
        /\ (pc = "compose" /\ pc' = "fetchMarkdownContent") =>
               \A i \in 1..Len(urls') :
                   urls'[i] \notin DOMAIN cache => frag'[i] = [st |-> "pending"]
      ]_vars

\* a combined document whose first section holds the placeholder of a locator
\* and whose second section holds the text of the same locator, fetched anew
C35_Witness ==
    /\ PromptDone
    /\ Len(Marks(PromptDoc)) = 2
    /\ Marks(PromptDoc)[1].kind = "error"
    /\ Marks(PromptDoc)[2] = [kind |-> "source", url |-> Marks(PromptDoc)[1].url]
    /\ frag[1].st = "ok"
    /\ ~HoldsPlaceholder(cache, urls[1])

UnsupportedRead == IsRead /\ ~ArrIncludes(SUPPORTED_VERSIONS, SpecVersionMatch(req.uri))

HeadingsAt(doc) == {i \in 1..(Len(doc) - 1) : doc[i] = "\n\n## "}

\* the part of `doc` from the heading at i up to the next heading
PartAt(doc, i) ==
    LET later == {j \in HeadingsAt(doc) : j > i}
        end == IF later = {} THEN Len(doc)
               ELSE (CHOOSE j \in later : \A k \in later : j <= k) - 1
    IN  SubSeq(doc, i, end)

\* the locators emitted under the section `sec` by a finished composition
EmittedUnder(sec) ==
    IF ResourceDone
    THEN UNION {Range(Sources(response.val[k].text)) :
                    k \in {m \in 1..Len(response.val) :
                              response.val[m].uri = req.uri \o <<"#">> \o sec}}
    ELSE UNION {Range(Sources(PartAt(PromptDoc, i))) :
                    i \in {h \in HeadingsAt(PromptDoc) :
                              PromptDoc[h + 1] = Head(UpperFirst(Pop(SplitSlash(sec))))}}

\* the locators of the list that the composition keeps and that hold `sub`
LocatorsUnder(sub) ==
    {u \in Range(links) :
        /\ Includes(u, <<"/", "specification", "/">> \o VERSION \o Slash)
        /\ ~Includes(u, <<"schema", ".json">>)
        /\ Includes(u, sub)}

\* C38: the literal sections nest: for every list and version the result for
\* '/basic/utilities/' is a sub-list of the result for '/basic/', and the
\* result for '/server/utilities/' a sub-list of the result for '/server/';
\* so in the complete composition every locator of 'basic/utilities' (of
\* 'server/utilities') is fetched and emitted under 'basic' ('server') too.
C38_LiteralSectionsNest ==
    /\ ret.op = "sections" =>
        /\ IsSubsequence(ret.val[3], ret.val[2])
        /\ IsSubsequence(ret.val[6], ret.val[5])
    /\ ((IsComplete \/ IsPrompt) /\ pc = "fetchMarkdownContent") =>
        /\ secIdx = 2 =>
               LocatorsUnder(<<"/", "basic", "/", "utilities", "/">>) \subseteq Range(urls)
        /\ secIdx = 5 =>
               LocatorsUnder(<<"/", "server", "/", "utilities", "/">>) \subseteq Range(urls)
    /\ (ResourceDone \/ PromptDone) =>
        /\ LocatorsUnder(<<"/", "basic", "/", "utilities", "/">>)
               \subseteq EmittedUnder(<<"basic">>)
        /\ LocatorsUnder(<<"/", "server", "/", "utilities", "/">>)
               \subseteq EmittedUnder(<<"server">>)

\* a finished complete resource whose 'basic' item and whose 'basic/utilities'
\* item both hold the page U1
C38_Witness ==
    /\ ResourceDone
    /\ Len(response.val) = 3
    /\ response.val[3].uri = req.uri \o <<"#", "basic", "/", "utilities">>
    /\ U1 \in Range(Sources(response.val[3].text))
    /\ U1 \in EmittedUnder(<<"basic">>)

\* ---------------------------------------------------- claims: termination
\* an operation has been started and has not completed
InFlight == pc \notin {"idle", "done"}

\* a remote fetch of the operation in progress is outstanding
FetchOutstanding ==
    \/ pc \in {"getSchema_fetch", "getSchemaForVersion_fetch", "fetchLinksList_fetch"}
    \/ pc = "fetchMarkdownContent" /\ \E i \in 1..Len(urls) : frag[i].st = "pending"

\* a remote fetch of the operation in progress never settles
NeverSettles == FetchOutstanding /\ fetches >= MaxFetches

\* C39: every read or composition request eventually completes, with a result
\* or a raised error, provided every remote fetch it issues eventually
\* settles; no request waits forever at the fan-in barrier because a sibling
\* fetch failed.
C39_RequestsComplete == InFlight ~> (pc = "done" \/ NeverSettles)

\* a section read has completed although one of its two fetches failed
C39_Witness ==
    /\ IsRead
    /\ pc = "done"
    /\ response # NoResponse
    /\ Len(urls) = 2
    /\ \E i, j \in 1..Len(urls) : frag[i].st = "failed" /\ frag[j].st = "ok"

====
